---------------------------- MODULE Spec2Model ----------------------------
(***************************************************************************)
(* Docker Model Runner router (backend/open_webui/routers/                 *)
(* docker_model_runner.py): the backend registry, the catalog refresh with *)
(* its TTL cache and name->record index, backend selection for a chat      *)
(* request, and the transport POST with its connection clean-up.           *)
(*                                                                         *)
(* Strings that the code takes apart or builds (model names, prefixes) are *)
(* sequences of one-character strings; Python dicts are functions whose    *)
(* DOMAIN is the set of keys present; Python list indices are 0-based and  *)
(* are kept 0-based (At reads a sequence at a 0-based index).              *)
(***************************************************************************)
EXTENDS Integers, Sequences, FiniteSets, TLC

(***************************************************************************)
(* Bounds of the model.                                                    *)
(***************************************************************************)
\* Largest number of backends in the registry (length of the URL list).
MaxBackends == 2
\* Request slots for catalog requests (those in flight at the same time).
MaxCalls == 1
\* Largest number of POST /config/update requests in a behaviour.
MaxUpdates == 1

(***************************************************************************)
(* Python helpers.                                                         *)
(***************************************************************************)
At(seq, idx) == seq[idx + 1]

Indices(seq) == 0 .. (Len(seq) - 1)

\* dict.get(key, default)
Get(d, key, default) == IF key \in DOMAIN d THEN d[key] ELSE default

\* d[key] = value
Put(d, key, value) ==
    [x \in (DOMAIN d) \cup {key} |-> IF x = key THEN value ELSE d[x]]

\* The empty dict {}.
EmptyDict == [x \in {} |-> TRUE]

\* str(idx) for the indices the model uses.
Digits == <<"0", "1", "2", "3", "4", "5", "6", "7", "8", "9">>
Str(idx) == Digits[idx + 1]

Range(seq) == {seq[i] : i \in 1 .. Len(seq)}

\* sub in s, for strings
Contains(s, sub) ==
    \E i \in 0 .. (Len(s) - Len(sub)) : SubSeq(s, i + 1, i + Len(sub)) = sub

\* s.replace(old, ""): every non-overlapping occurrence, scanning left to right.
RECURSIVE Replace(_, _)
Replace(s, old) ==
    IF Len(old) = 0 \/ Len(s) < Len(old) THEN s
    ELSE IF SubSeq(s, 1, Len(old)) = old
         THEN Replace(SubSeq(s, Len(old) + 1, Len(s)), old)
         ELSE <<Head(s)>> \o Replace(Tail(s), old)

(***************************************************************************)
(* The values the model draws its inputs from.                             *)
(***************************************************************************)
\* Native model names a backend can list: "m:1", "a.m:1", "m".
NameM1 == <<"m", ":", "1">>
NameAM1 == <<"a", ".", "m", ":", "1">>
NameM == <<"m">>
NativeNames == {NameM1, NameAM1, NameM}

\* The name prefix a backend can be configured with: "a".
PrefixA == <<"a">>

Latest == <<":", "l", "a", "t", "e", "s", "t">>

\* The registry's URLs by position.
Urls == <<"http://r0", "http://r1", "http://r2", "http://r3">>

\* Requesting identities; NoUser is user=None.
NoUser == [id |-> "", role |-> "none"]
UserU == [id |-> "u1", role |-> "user"]
UserA == [id |-> "a1", role |-> "admin"]
Users == {UserU, UserA}

\* Per-backend configuration dicts an administrator can store.
CfgDisabled == [enable |-> FALSE, prefix_id |-> PrefixA]
CfgPrefix ==
    [enable |-> TRUE, prefix_id |-> PrefixA, tags |-> <<"t">>,
     connection_type |-> "local", model_ids |-> <<NameAM1, NameM1>>,
     key |-> "k"]
ConfigChoices == {CfgDisabled, CfgPrefix}

\* One entry of a backend's /api/tags answer, as sent by backend idx.
UpstreamModel(name, idx) == [model |-> name, tags |-> <<"up">>, digest |-> idx]

\* The model lists a backend can answer with.
Listings == {<<NameM1>>, <<NameAM1, NameM, NameM1>>}

\* What a GET to a backend ends in: a listing, or a transport error, a
\* timeout or a body that is no JSON (send_get_request then returns None).
Unreachable == <<<<"!">>>>
Answers == Listings \cup {Unreachable}

\* What one GET task yields: None (ok = FALSE), or the parsed JSON body.
NoneResponse == [ok |-> FALSE, models |-> <<>>]
JsonResponse(names, idx) ==
    [ok |-> TRUE, models |-> [k \in 1 .. Len(names) |-> UpstreamModel(names[k], idx)]]

(***************************************************************************)
(* The program's state.                                                    *)
(***************************************************************************)
VARIABLES
    \* request.app.state.config.ENABLE_DOCKER_MODEL_RUNNER_API
    ENABLE_DOCKER_MODEL_RUNNER_API,
    \* request.app.state.config.DOCKER_MODEL_RUNNER_BASE_URLS
    DOCKER_MODEL_RUNNER_BASE_URLS,
    \* request.app.state.config.DOCKER_MODEL_RUNNER_API_CONFIGS
    DOCKER_MODEL_RUNNER_API_CONFIGS,
    \* request.app.state.DOCKER_MODEL_RUNNER_MODELS: the name->record index
    DOCKER_MODEL_RUNNER_MODELS,
    \* the store behind @cached on get_all_models: key -> entry
    cache,
    \* the calls of get_all_models, by request slot: suspended at an await, or
    \* returned (the slot then keeps the call's locals and its response)
    calls,
    \* the response of the chat request served last, until the next request
    \* of any kind is served
    last,
    \* the send_post_request call in progress
    post,
    \* the request served by one of the other endpoints (version, pinned tag
    \* listing, verify, loaded models, config update form)
    req,
    \* open_webui.env.BYPASS_MODEL_ACCESS_CONTROL, fixed when the process starts
    BYPASS_MODEL_ACCESS_CONTROL,
    \* how many POST /config/update requests have been served
    updates

vars == <<ENABLE_DOCKER_MODEL_RUNNER_API, DOCKER_MODEL_RUNNER_BASE_URLS,
          DOCKER_MODEL_RUNNER_API_CONFIGS, DOCKER_MODEL_RUNNER_MODELS,
          cache, calls, last, post, req, BYPASS_MODEL_ACCESS_CONTROL,
          updates>>

config == <<ENABLE_DOCKER_MODEL_RUNNER_API, DOCKER_MODEL_RUNNER_BASE_URLS,
            DOCKER_MODEL_RUNNER_API_CONFIGS>>

(***************************************************************************)
(* Backend registry.                                                       *)
(***************************************************************************)
\* configs.get(str(idx), configs.get(url, {}))
api_config_for(configs, urls, idx) ==
    Get(configs, Str(idx), Get(configs, At(urls, idx), EmptyDict))

\* Whether the fan-out of get_all_models / get_loaded_models issues a GET
\* to backend idx, or substitutes asyncio.sleep(0, None).
fanout_mutant_calls(configs, urls, idx) == TRUE

fanout_calls(configs, urls, idx) ==
    IF Str(idx) \notin DOMAIN configs /\ At(urls, idx) \notin DOMAIN configs
    THEN TRUE
    ELSE Get(api_config_for(configs, urls, idx), "enable", TRUE)

\* request_tasks: one slot per backend, TRUE where a GET is issued.
request_tasks(configs, urls) ==
    [k \in 1 .. Len(urls) |-> fanout_calls(configs, urls, k - 1)]

\* The indices whose configuration has enable = false.
DisabledIn(configs, urls) ==
    {i \in Indices(urls) :
        ~Get(api_config_for(configs, urls, i), "enable", TRUE)}

\* update_config: the form's values are stored, then the config mapping is
\* pruned to the keys str(0) .. str(len(urls) - 1).
prune_mutant_keep(urls, configs) == configs

prune_configs(urls, configs) ==
    LET keys == {Str(i) : i \in Indices(urls)}
    IN  [key \in {k \in DOMAIN configs : k \in keys} |-> configs[key]]

(***************************************************************************)
(* Catalog aggregation.                                                    *)
(***************************************************************************)
\* asyncio.gather(*request_tasks): the results in the order of the tasks,
\* whatever the order `arrival` in which the tasks completed.  results[i] is
\* what the task of slot i yielded.
gather_mutant_arrival(results, arrival) ==
    [k \in 1 .. Len(results) |-> results[arrival[k]]]

gather(results, arrival) == [k \in 1 .. Len(results) |-> results[k]]

\* f"{prefix_id}.{model['model']}"
prefixed(prefix_id, name) == prefix_id \o <<".">> \o name

\* Lines 344-363: the per-backend transforms of one non-null response.
apply_model_ids(models, model_ids) ==
    IF Len(model_ids) # 0
    THEN SelectSeq(models, LAMBDA model : model["model"] \in Range(model_ids))
    ELSE models

transform_mutant_keep_tags(model, api_config) ==
    LET connection_type == Get(api_config, "connection_type", "docker")
        prefix_id == Get(api_config, "prefix_id", <<>>)
        m1 == IF prefix_id # <<>>
              THEN Put(model, "model", prefixed(prefix_id, model["model"]))
              ELSE model
    IN  IF connection_type # "" THEN Put(m1, "connection_type", connection_type)
        ELSE m1

transform_model(model, api_config) ==
    LET connection_type == Get(api_config, "connection_type", "docker")
        prefix_id == Get(api_config, "prefix_id", <<>>)
        tags == Get(api_config, "tags", <<>>)
        m1 == IF prefix_id # <<>>
              THEN Put(model, "model", prefixed(prefix_id, model["model"]))
              ELSE model
        m2 == IF tags # <<>> THEN Put(m1, "tags", tags) ELSE m1
    IN  IF connection_type # "" THEN Put(m2, "connection_type", connection_type)
        ELSE m2

transform_response(response, api_config) ==
    IF ~response.ok THEN response
    ELSE LET kept == apply_model_ids(response.models,
                                     Get(api_config, "model_ids", <<>>))
         IN  [ok |-> TRUE,
              models |-> [k \in 1 .. Len(kept) |->
                             transform_model(kept[k], api_config)]]

transform_responses(responses, configs, urls) ==
    [k \in 1 .. Len(responses) |->
        transform_response(responses[k], api_config_for(configs, urls, k - 1))]

\* Position of the record named id in merged, 0 when there is none.
PositionOf(merged, id) ==
    IF \E k \in 1 .. Len(merged) : merged[k]["model"] = id
    THEN CHOOSE k \in 1 .. Len(merged) : merged[k]["model"] = id
    ELSE 0

\* The body of the inner loop of merge_models_lists for one model of list idx.
merge_one_mutant_first_only(merged, model, idx) ==
    IF "model" \notin DOMAIN model THEN merged
    ELSE IF PositionOf(merged, model["model"]) = 0
         THEN Append(merged, Put(model, "urls", <<idx>>))
         ELSE merged

merge_one_mutant_last_wins(merged, model, idx) ==
    IF "model" \notin DOMAIN model THEN merged
    ELSE LET pos == PositionOf(merged, model["model"])
         IN  IF pos = 0
             THEN Append(merged, Put(model, "urls", <<idx>>))
             ELSE [merged EXCEPT ![pos] =
                      Put(model, "urls", Append(@["urls"], idx))]

merge_one(merged, model, idx) ==
    IF "model" \notin DOMAIN model THEN merged
    ELSE LET pos == PositionOf(merged, model["model"])
         IN  IF pos = 0
             THEN Append(merged, Put(model, "urls", <<idx>>))
             ELSE [merged EXCEPT ![pos] =
                      Put(@, "urls", Append(@["urls"], idx))]

RECURSIVE merge_list(_, _, _)
merge_list(merged, model_list, idx) ==
    IF model_list = <<>> THEN merged
    ELSE merge_list(merge_one(merged, Head(model_list), idx),
                    Tail(model_list), idx)

\* merge_models_lists over the slots k .. Len(responses); a None slot is
\* skipped, and idx is the slot's position in the list.
RECURSIVE merge_from(_, _, _)
merge_from(merged, responses, k) ==
    IF k > Len(responses) THEN merged
    ELSE merge_from(
            IF responses[k].ok
            THEN merge_list(merged, responses[k].models, k - 1)
            ELSE merged,
            responses, k + 1)

merge_models_lists(responses) == merge_from(<<>>, responses, 1)

(***************************************************************************)
(* The loaded-model listing (get_loaded_models) and the expiry annotation. *)
(***************************************************************************)
\* One /api/ps answer: the model "m:1" is loaded and expires at ExpiresIso.
ExpiresIso == "1970-01-01T00:00:10+00:00"
PsResponse == [ok |-> TRUE,
               models |-> <<[model |-> NameM1, expires_at |-> ExpiresIso]>>]

\* A /api/ps answer with three loaded models: "m:1" as above, "a.m:1"
\* without an expiry, and "m" with an expiry that datetime.fromisoformat
\* does not parse.
MalformedIso == "soon"
PsMalformed ==
    [ok |-> TRUE,
     models |-> <<[model |-> NameM1, expires_at |-> ExpiresIso],
                  [model |-> NameAM1],
                  [model |-> NameM, expires_at |-> MalformedIso]>>]

\* What a backend answers to GET /api/ps: nothing, or one of the listings.
PsAnswers == {"none", "loaded", "malformed"}
ps_response(answer) ==
    CASE answer = "loaded" -> PsResponse
      [] answer = "malformed" -> PsMalformed
      [] OTHER -> NoneResponse

\* datetime.fromisoformat(s) returns; otherwise it raises ValueError.
is_iso(iso) == iso = ExpiresIso

\* int(datetime.fromisoformat(s).timestamp())
epoch_seconds(iso) == CASE iso = ExpiresIso -> 10

\* Lines 494-506: the prefix of the backend is put before each loaded name.
prefix_loaded(response, api_config) ==
    LET prefix_id == Get(api_config, "prefix_id", <<>>)
    IN  IF ~response.ok \/ prefix_id = <<>> THEN response
        ELSE [ok |-> TRUE,
              models |-> [k \in 1 .. Len(response.models) |->
                  Put(response.models[k], "model",
                      prefixed(prefix_id, response.models[k]["model"]))]]

\* The value get_loaded_models returns from the gathered /api/ps responses.
loaded_models(responses, configs, urls) ==
    merge_models_lists(
        [k \in 1 .. Len(responses) |->
            prefix_loaded(responses[k], api_config_for(configs, urls, k - 1))])

\* Lines 376-385: expires_map, then the annotation of the merged records.
expires_of(loaded, name) ==
    LET hits == {k \in 1 .. Len(loaded) :
                    /\ loaded[k]["model"] = name
                    /\ "expires_at" \in DOMAIN loaded[k]}
    IN  IF hits = {} THEN "" ELSE loaded[CHOOSE k \in hits : TRUE]["expires_at"]

\* The loop of lines 381-384 from record k on: the records are annotated in
\* place one after the other; the ValueError of a malformed expiry leaves
\* the loop (it is caught at line 385) with the records annotated so far.
RECURSIVE annotate_from(_, _, _)
annotate_from(models, loaded, k) ==
    IF k > Len(models) THEN models
    ELSE LET iso == expires_of(loaded, models[k]["model"])
         IN  IF iso = "" THEN annotate_from(models, loaded, k + 1)
             ELSE IF ~is_iso(iso) THEN models
             ELSE annotate_from(
                     [models EXCEPT ![k] =
                         Put(@, "expires_at", epoch_seconds(iso))],
                     loaded, k + 1)

annotate_expiry(models, loaded) == annotate_from(models, loaded, 1)

\* Lines 392-394: the name->record index of a catalog.
index_mutant_update(models) ==
    [name \in DOMAIN DOCKER_MODEL_RUNNER_MODELS
                \cup {models[k]["model"] : k \in 1 .. Len(models)} |->
        IF \E k \in 1 .. Len(models) : models[k]["model"] = name
        THEN models[CHOOSE k \in 1 .. Len(models) : models[k]["model"] = name]
        ELSE DOCKER_MODEL_RUNNER_MODELS[name]]

index_of(models) ==
    [name \in {models[k]["model"] : k \in 1 .. Len(models)} |->
        models[CHOOSE k \in 1 .. Len(models) :
                  /\ models[k]["model"] = name
                  /\ \A j \in (k + 1) .. Len(models) : models[j]["model"] # name]]

(***************************************************************************)
(* The cache of get_all_models (@cached, lines 305-308).                   *)
(***************************************************************************)
\* MODELS_CACHE_TTL, in clock ticks.
MODELS_CACHE_TTL == 2

\* key=lambda _, user: ...
cache_key(user) ==
    IF user # NoUser
    THEN <<"docker_model_runner_all_models_", user.id>>
    ELSE <<"docker_model_runner_all_models">>

\* The entry is served while its TTL has not run out.
cache_hit(key) == key \in DOMAIN cache

\* get_filtered_models: the records whose model is registered in the metadata
\* store and owned by or readable for the user; `readable` is that set of
\* names at the time of the call.
get_filtered_mutant_all(models, readable) == models

get_filtered_models(models, readable) ==
    SelectSeq(models, LAMBDA model : model["model"] \in readable)

\* Lines 460-461 of get_tags: who gets the filtered listing.
is_filtered(user) == user.role = "user" /\ ~BYPASS_MODEL_ACCESS_CONTROL

(***************************************************************************)
(* Catalog requests: GET /api/tags without an index (get_tags, by a        *)
(* verified user) and calls of get_all_models from elsewhere in the        *)
(* application without a user.                                             *)
(***************************************************************************)
Slots == 1 .. MaxCalls

Requesters ==
    {[caller |-> "get_tags", user |-> u] : u \in Users}
        \cup {[caller |-> "direct", user |-> NoUser]}

\* Every name a catalog can hold.
CatalogNames == NativeNames \cup {prefixed(PrefixA, n) : n \in NativeNames}

\* What the metadata store lets the non-privileged user read, at one moment.
Readables == {{}, {NameM1}, CatalogNames}

\* The response a request is waiting for is no chat response.
NoChat == [op |-> "none"]

\* A slot that holds no call.
IdleCall ==
    [pc |-> "idle", caller |-> "", user |-> NoUser, hit |-> FALSE,
     backends |-> 0, tasks |-> <<>>, disabled |-> {}, wire |-> <<>>, responses |-> <<>>,
     models |-> <<>>, ps_tasks |-> <<>>, ps_disabled |-> {},
     ps_ok |-> FALSE, loaded |-> <<>>,
     status |-> 0, ret |-> <<>>, body |-> <<>>, readable |-> {}]

Free(p) == calls[p].pc \in {"idle", "done"}

\* The listing get_tags hands out (lines 460-463); get_all_models itself
\* returns the catalog as it is.
response_body(caller, user, catalog, readable) ==
    IF caller = "get_tags" /\ is_filtered(user)
    THEN get_filtered_models(catalog, readable)
    ELSE catalog

ArrivalOrders(n) ==
    {f \in [1 .. n -> 1 .. n] : \A i, j \in 1 .. n : f[i] = f[j] => i = j}

\* The decorator finds the entry of the caller's key: get_all_models is not
\* run.  get_tags then filters the dict it was handed, which is the cached
\* object itself.
get_all_models_hit(p, r, readable) ==
    LET key == cache_key(r.user)
        body == response_body(r.caller, r.user, cache[key].value, readable)
    IN  /\ Free(p)
        /\ cache_hit(key)
        /\ calls' = [calls EXCEPT ![p] =
              [IdleCall EXCEPT !.pc = "done", !.caller = r.caller,
                  !.user = r.user, !.hit = TRUE, !.status = 200,
                  !.ret = cache[key].value, !.body = body,
                  !.readable = readable]]
        /\ cache' = [cache EXCEPT ![key].value = body]
        /\ last' = NoChat
        /\ UNCHANGED <<config, DOCKER_MODEL_RUNNER_MODELS, post, req,
                       BYPASS_MODEL_ACCESS_CONTROL, updates>>

\* Lines 392-395 and the decorator's set: the index is replaced, the catalog
\* is stored under the caller's key and returned; get_tags filters it.
Return(p, c, final, readable) ==
    LET body == response_body(c.caller, c.user, final, readable)
    IN  /\ DOCKER_MODEL_RUNNER_MODELS' = index_of(final)
        /\ cache' = Put(cache, cache_key(c.user),
                        [value |-> body, computed |-> final,
                         left |-> MODELS_CACHE_TTL])
        /\ calls' = [calls EXCEPT ![p] =
              [c EXCEPT !.pc = "done", !.status = 200, !.ret = final,
                        !.body = body, !.readable = readable]]

\* Cache miss with the API disabled (lines 389-395).
get_all_models_off(p, r, readable) ==
    /\ Free(p)
    /\ ~cache_hit(cache_key(r.user))
    /\ ~ENABLE_DOCKER_MODEL_RUNNER_API
    /\ Return(p, [IdleCall EXCEPT !.caller = r.caller, !.user = r.user],
              <<>>, readable)
    /\ last' = NoChat
    /\ UNCHANGED <<config, post, req, BYPASS_MODEL_ACCESS_CONTROL, updates>>

\* Cache miss (lines 311-334): one task per backend, then the await of gather.
get_all_models_start(p, r) ==
    /\ Free(p)
    /\ ~cache_hit(cache_key(r.user))
    /\ ENABLE_DOCKER_MODEL_RUNNER_API
    /\ calls' = [calls EXCEPT ![p] =
          [IdleCall EXCEPT !.pc = "gather", !.caller = r.caller,
              !.user = r.user,
              !.backends = Len(DOCKER_MODEL_RUNNER_BASE_URLS),
              !.tasks = request_tasks(DOCKER_MODEL_RUNNER_API_CONFIGS,
                                      DOCKER_MODEL_RUNNER_BASE_URLS),
              !.disabled = DisabledIn(DOCKER_MODEL_RUNNER_API_CONFIGS,
                                      DOCKER_MODEL_RUNNER_BASE_URLS)]]
    /\ last' = NoChat
    /\ UNCHANGED <<config, DOCKER_MODEL_RUNNER_MODELS, cache, post, req,
                   BYPASS_MODEL_ACCESS_CONTROL, updates>>

\* An index of a non-null response that BASE_URLS[idx] cannot read any more.
IndexError(responses) ==
    \E k \in 1 .. Len(responses) :
        responses[k].ok /\ (k - 1) \notin Indices(DOCKER_MODEL_RUNNER_BASE_URLS)

\* gather returns (line 334): `up` are the backends that answered, listing[k]
\* is what backend k - 1 lists, arrival the order in which the GETs ended.
\* Lines 336-375 follow without a suspension, up to the await inside
\* get_loaded_models.
get_all_models_gathered(p, answers, arrival, readable) ==
    LET c == calls[p]
        wire == [k \in 1 .. Len(c.tasks) |->
                    IF c.tasks[k] /\ answers[k] # Unreachable
                    THEN JsonResponse(answers[k], k - 1) ELSE NoneResponse]
        gathered == gather(wire, arrival)
        responses == transform_responses(gathered,
                        DOCKER_MODEL_RUNNER_API_CONFIGS,
                        DOCKER_MODEL_RUNNER_BASE_URLS)
        models == merge_models_lists(responses)
        d == [c EXCEPT !.wire = wire, !.responses = responses,
                       !.models = models]
    IN  /\ c.pc = "gather"
        /\ IF IndexError(gathered)
           THEN \* line 338 raises: the request fails, nothing is stored
                /\ calls' = [calls EXCEPT ![p] =
                      [c EXCEPT !.pc = "done", !.wire = wire, !.status = 500]]
                /\ UNCHANGED <<DOCKER_MODEL_RUNNER_MODELS, cache>>
           ELSE IF ENABLE_DOCKER_MODEL_RUNNER_API
           THEN \* get_loaded_models builds its tasks and awaits gather
                /\ calls' = [calls EXCEPT ![p] =
                      [d EXCEPT !.pc = "ps",
                          !.ps_tasks = request_tasks(
                              DOCKER_MODEL_RUNNER_API_CONFIGS,
                              DOCKER_MODEL_RUNNER_BASE_URLS),
                          !.ps_disabled = DisabledIn(
                              DOCKER_MODEL_RUNNER_API_CONFIGS,
                              DOCKER_MODEL_RUNNER_BASE_URLS)]]
                /\ UNCHANGED <<DOCKER_MODEL_RUNNER_MODELS, cache>>
           ELSE \* get_loaded_models returns an empty listing at once
                Return(p, d, models, readable)
        /\ last' = NoChat
    /\ UNCHANGED <<config, post, req, BYPASS_MODEL_ACCESS_CONTROL, updates>>

\* gather of get_loaded_models returns (line 492); lines 494-519 and 376-395
\* follow without a suspension.  An exception in there is caught at line 386.
get_all_models_loaded(p, ps, arrival, readable) ==
    LET c == calls[p]
        wire == [k \in 1 .. Len(c.ps_tasks) |->
                    IF c.ps_tasks[k] THEN ps_response(ps[k])
                    ELSE NoneResponse]
        gathered == gather(wire, arrival)
        raised == IndexError(gathered)
        loaded == IF raised THEN <<>>
                  ELSE loaded_models(gathered,
                           DOCKER_MODEL_RUNNER_API_CONFIGS,
                           DOCKER_MODEL_RUNNER_BASE_URLS)
        final == IF raised THEN c.models
                 ELSE annotate_expiry(c.models, loaded)
    IN  /\ c.pc = "ps"
        /\ Return(p, [c EXCEPT !.ps_ok = ~raised, !.loaded = loaded],
                  final, readable)
        /\ last' = NoChat
    /\ UNCHANGED <<config, post, req, BYPASS_MODEL_ACCESS_CONTROL, updates>>

\* The clock advances by one tick: entries whose TTL has run out are deleted.
Tick ==
    /\ cache # EmptyDict
    /\ cache' = [key \in {k \in DOMAIN cache : cache[k].left > 1} |->
                    [cache[key] EXCEPT !.left = @ - 1]]
    /\ last' = NoChat
    /\ UNCHANGED <<config, DOCKER_MODEL_RUNNER_MODELS, calls, post, req,
                   BYPASS_MODEL_ACCESS_CONTROL, updates>>

\* POST /config/update.
update_config(enable, n, configs) ==
    LET urls == SubSeq(Urls, 1, n)
    IN  /\ updates < MaxUpdates
        /\ updates' = updates + 1
        /\ ENABLE_DOCKER_MODEL_RUNNER_API' = enable
        /\ DOCKER_MODEL_RUNNER_BASE_URLS' = urls
        /\ DOCKER_MODEL_RUNNER_API_CONFIGS' = prune_configs(urls, configs)
        /\ last' = NoChat
        /\ UNCHANGED <<DOCKER_MODEL_RUNNER_MODELS, cache, calls, post, req,
                       BYPASS_MODEL_ACCESS_CONTROL>>

\* The config mappings a form can carry: keys str(0) .. str(MaxBackends).
FormConfigs ==
    UNION {[keys -> ConfigChoices] :
              keys \in SUBSET {Str(i) : i \in 0 .. MaxBackends}}

(***************************************************************************)
(* Transport: send_post_request and the StreamingResponse it returns.      *)
(***************************************************************************)
\* Largest number of chunks relayed by one streamed response.
MaxChunks == 2

\* The upstream's answers to the POST: status codes and kinds of body.
Statuses == {200, 400, 404, 500}
Bodies == {"error", "no_error", "not_json"}

\* r = None
NoStatus == 0

\* No call is in progress.
NoPost ==
    [pc |-> "none", stream |-> FALSE, r |-> NoStatus, body |-> "",
     cleanups |-> 0, response_closed |-> 0, session_closed |-> 0,
     pending |-> "", status |-> 0, detail |-> "", chunks |-> 0,
     caller |-> "", url |-> "", insecure |-> FALSE]

\* aiohttp's ClientResponse.ok
ok(status) == status < 400

\* cleanup_response(r, session): the session exists from line 112 on.
cleanup_response(c) ==
    [c EXCEPT !.cleanups = @ + 1,
              !.response_closed = @ + (IF c.r # NoStatus THEN 1 ELSE 0),
              !.session_closed = @ + 1]

\* status_code=r.status if r else 500 (lines 152 and 179)
error_status_mutant_500(c) == 500

error_status(c) == IF c.r # NoStatus THEN c.r ELSE 500

\* raise HTTPException(status_code, detail): the finally clause runs next.
raise(c, status, detail) ==
    [c EXCEPT !.pc = "finally", !.pending = "raise", !.status = status,
              !.detail = detail]

ServerConnectionError == "Open WebUI: Server Connection Error"
UpstreamError == "res['error']"
WrappedException == "Docker Model Runner: {e}"

\* What a POST call leaves alone.
rest ==
    <<config, DOCKER_MODEL_RUNNER_MODELS, cache, calls, last, req,
      BYPASS_MODEL_ACCESS_CONTROL, updates>>

\* Lines 110-116: r = None, the session is created, the POST is awaited.
post_call(stream) ==
    /\ post.pc \in {"none", "raised", "returned", "closed"}
    /\ post' = [NoPost EXCEPT !.pc = "post", !.stream = stream]
    /\ UNCHANGED rest

\* The POST raises (connection refused, timeout): lines 176-181.
post_fails ==
    /\ post.pc = "post"
    /\ post' = raise(post, error_status(post), WrappedException)
    /\ UNCHANGED rest

\* The POST returns a response.
post_responds(status, body) ==
    /\ post.pc = "post"
    /\ post' = [post EXCEPT !.pc = "check", !.r = status, !.body = body]
    /\ UNCHANGED rest

\* Lines 141-154: the error body of a non-success response is read.
post_error_body ==
    /\ post.pc = "check"
    /\ ~ok(post.r)
    /\ post' =
          IF post.body = "not_json"
          THEN raise(post, error_status(post), ServerConnectionError)
          ELSE IF post.body = "error"
          THEN raise(cleanup_response(post), post.r, UpstreamError)
          ELSE \* no "error" field: line 156 raises, lines 176-181 wrap it
               raise(cleanup_response(post), error_status(post),
                     WrappedException)
    /\ UNCHANGED rest

\* Lines 156-172 for a success response.
post_success ==
    /\ post.pc = "check"
    /\ ok(post.r)
    /\ post' =
          IF post.stream
          THEN [post EXCEPT !.pc = "finally", !.pending = "stream",
                            !.status = post.r]
          ELSE IF post.body = "not_json"
          THEN raise(post, error_status(post), WrappedException)
          ELSE [post EXCEPT !.pc = "finally", !.pending = "json",
                            !.status = post.r]
    /\ UNCHANGED rest

\* Lines 182-184, then the call returns or raises.
post_finally ==
    /\ post.pc = "finally"
    /\ post' =
          LET c == IF ~post.stream THEN cleanup_response(post) ELSE post
          IN  [c EXCEPT !.pc = CASE post.pending = "raise" -> "raised"
                                 [] post.pending = "stream" -> "streaming"
                                 [] OTHER -> "returned"]
    /\ UNCHANGED rest

\* The StreamingResponse relays one chunk of r.content.
stream_chunk ==
    /\ post.pc = "streaming"
    /\ post.chunks < MaxChunks
    /\ post' = [post EXCEPT !.chunks = @ + 1]
    /\ UNCHANGED rest

\* The body is exhausted, or the client goes away: the response is over and
\* its background task is due.
stream_ends(how) ==
    /\ post.pc = "streaming"
    /\ post' = [post EXCEPT !.pc = "background", !.pending = how]
    /\ UNCHANGED rest

\* BackgroundTask(cleanup_response, response=r, session=session)
background_task ==
    /\ post.pc = "background"
    /\ post' = [cleanup_response(post) EXCEPT !.pc = "closed"]
    /\ UNCHANGED rest

(***************************************************************************)
(* POST /api/chat: access check, backend selection, forwarding.            *)
(***************************************************************************)
\* What Models.get_model_by_id yields for the requested name: nothing, or
\* the stored base model alias ("" for none) and whether the user owns the
\* model or has_access(user.id, "read", access_control) holds.
NoInfo == [registered |-> FALSE, base_model_id |-> <<>>, readable |-> FALSE]
ModelInfo(base, readable) ==
    [registered |-> TRUE, base_model_id |-> base, readable |-> readable]

\* url_idx = None
Unpinned == -1

\* The access check of lines 685-706: TRUE when the request may proceed.
access_mutant_open(user, info, bypass_filter) == TRUE

access_granted(user, info, bypass_filter) ==
    IF info.registered
    THEN ~(~bypass_filter /\ user.role = "user") \/ info.readable
    ELSE bypass_filter \/ user.role = "admin"

\* Lines 708-709.
normalise_mutant_none(model) == model

normalise(model) == IF <<":">> \notin {<<ch>> : ch \in Range(model)}
                    THEN model \o Latest ELSE model

\* Lines 717-719: the prefix of the resolved backend is taken off.
strip_prefix(model, api_config) ==
    LET prefix_id == Get(api_config, "prefix_id", <<>>)
    IN  IF prefix_id # <<>> THEN Replace(model, prefix_id \o <<".">>)
        ELSE model

\* random.choice(models[model].get("urls", [])): any element.
choices_mutant_any(urls) == Indices(DOCKER_MODEL_RUNNER_BASE_URLS)

choices(urls) == Range(urls)

\* get_runner_url, line 647: the name is not in the index.
model_not_found(model) == model \notin DOMAIN DOCKER_MODEL_RUNNER_MODELS

ChatResponse(in, status, detail) ==
    [op |-> "chat", in |-> in, status |-> status, detail |-> detail,
     forwarded |-> FALSE, url_idx |-> Unpinned, model |-> <<>>,
     consulted |-> FALSE]

\* ERROR_MESSAGES.MODEL_NOT_FOUND(model)
MODEL_NOT_FOUND(model) == <<"MODEL_NOT_FOUND">> \o model

\* The model name looked up and forwarded: the base model alias of a
\* registered model (lines 686-687), normalised.
payload_model(in) ==
    normalise(IF in.info.registered /\ in.info.base_model_id # <<>>
              THEN in.info.base_model_id ELSE in.model)

\* Whether the request gets as far as random.choice (line 652).
reaches_choice(in) ==
    /\ in.url_idx = Unpinned
    /\ in.valid
    /\ access_granted(in.user, in.info,
                      in.bypass_filter \/ BYPASS_MODEL_ACCESS_CONTROL)
    /\ ~model_not_found(payload_model(in))

\* in: the request (user, model, url_idx, valid, bypass_filter, stream) and
\* what the metadata store holds for the model (info); pick: the index
\* random.choice selects when the backend is not pinned.
generate_chat_completion(in, pick) ==
    LET bypass_filter == in.bypass_filter \/ BYPASS_MODEL_ACCESS_CONTROL
        model == payload_model(in)
        pinned == in.url_idx # Unpinned
        url_idx == IF pinned THEN in.url_idx ELSE pick
    IN  /\ last' =
              IF ~in.valid
                  THEN ChatResponse(in, 400, <<"validation">>)
              ELSE IF ~access_granted(in.user, in.info, bypass_filter)
                  THEN ChatResponse(in, 403, <<"Model not found">>)
              ELSE IF ~pinned /\ model_not_found(model)
                  THEN [ChatResponse(in, 400, MODEL_NOT_FOUND(model))
                            EXCEPT !.consulted = TRUE]
              ELSE IF url_idx \notin Indices(DOCKER_MODEL_RUNNER_BASE_URLS)
                  THEN \* BASE_URLS[url_idx] raises IndexError (line 653)
                       [ChatResponse(in, 500, <<"IndexError">>)
                            EXCEPT !.consulted = ~pinned]
              ELSE [ChatResponse(in, 0, <<>>) EXCEPT
                       !.forwarded = TRUE, !.url_idx = url_idx,
                       !.consulted = ~pinned,
                       !.model = strip_prefix(model,
                           api_config_for(DOCKER_MODEL_RUNNER_API_CONFIGS,
                               DOCKER_MODEL_RUNNER_BASE_URLS, url_idx))]
        /\ UNCHANGED <<config, DOCKER_MODEL_RUNNER_MODELS, cache, calls, post, req,
                       BYPASS_MODEL_ACCESS_CONTROL, updates>>

ChatRequest(user, model, url_idx, info, bypass_filter, valid, stream) ==
    [user |-> user, model |-> model, url_idx |-> url_idx, info |-> info,
     bypass_filter |-> bypass_filter, valid |-> valid, stream |-> stream]

\* The names chat requests ask for: "m:1", "m", "a.m:1", "a.a.m:1".
ChatNames == {NameM1, NameM, prefixed(PrefixA, NameM1),
              prefixed(PrefixA, NameAM1)}

\* Requests of the administrator for every name, pinned to each backend or
\* not pinned; the model is not registered in the metadata store.
RoutingRequests ==
    {ChatRequest(UserA, model, url_idx, NoInfo, FALSE, TRUE, TRUE) :
        model \in ChatNames, url_idx \in Unpinned .. (MaxBackends - 1)}

\* Requests for "m:1" by both users under every state of the metadata
\* store, with and without the bypass_filter parameter, pinned or not.
AccessRequests ==
    {ChatRequest(user, NameM1, url_idx, info, bypass, valid, FALSE) :
        user \in Users, bypass \in BOOLEAN, valid \in BOOLEAN,
        url_idx \in {Unpinned, 0},
        info \in {NoInfo, ModelInfo(<<>>, FALSE), ModelInfo(<<>>, TRUE),
                  ModelInfo(NameM, TRUE)}}

(***************************************************************************)
(* The other endpoints: version, pinned tag listing, verify, loaded models. *)
(***************************************************************************)
\* No request of these endpoints has been served.
NoReq ==
    [op |-> "none", pc |-> "idle", url_idx |-> Unpinned, user |-> NoUser,
     tasks |-> <<>>, wire |-> <<>>, status |-> 0, ret |-> <<>>,
     detail |-> "", readable |-> {}, form |-> EmptyDict, n |-> 0,
     enable |-> FALSE]

\* What a request of these endpoints leaves alone.
others ==
    <<config, DOCKER_MODEL_RUNNER_MODELS, cache, calls, last, post,
      BYPASS_MODEL_ACCESS_CONTROL, updates>>

\* A synchronous call of the requests library that never returns keeps the
\* event loop: no handler of these endpoints runs any more.
Blocked == req.pc = "blocked"

\* The model serves one request of these endpoints at a time.
ReqFree == req.pc \in {"idle", "done"}

\* The version strings backends report.
V120 == <<"v", "1", ".", "2", ".", "0">>
V1100 == <<"v", "1", ".", "1", "0", ".", "0">>
V125 == <<"v", "1", ".", "2", ".", "5">>
VRc == <<"1", ".", "2", ".", "0", "-", "r", "c", "1">>
VersionStrings == {V120, V1100, V125, VRc}

\* What GET /api/version of one backend yields through send_get_request:
\* None, a JSON body without "version" (an error body), or a version.
NoVersion == [ok |-> FALSE, has_version |-> FALSE, version |-> <<>>]
ErrorBody == [ok |-> TRUE, has_version |-> FALSE, version |-> <<>>]
VersionResponse(v) == [ok |-> TRUE, has_version |-> TRUE, version |-> v]
VersionAnswers ==
    {NoVersion, ErrorBody} \cup {VersionResponse(v) : v \in VersionStrings}

\* re.sub(r"^v|-.*", "", s)
strip_version(s) ==
    LET t == IF s # <<>> /\ Head(s) = "v" THEN Tail(s) ELSE s
        dashes == {i \in 1 .. Len(t) : t[i] = "-"}
    IN  IF dashes = {} THEN t
        ELSE SubSeq(t, 1, (CHOOSE i \in dashes : \A j \in dashes : i <= j) - 1)

\* s.split(".")
RECURSIVE split(_)
split(s) ==
    LET dots == {i \in 1 .. Len(s) : s[i] = "."}
    IN  IF dots = {} THEN <<s>>
        ELSE LET i == CHOOSE d \in dots : \A e \in dots : d <= e
             IN  <<SubSeq(s, 1, i - 1)>> \o split(SubSeq(s, i + 1, Len(s)))

\* int(s) for a string of decimal digits; is_int is FALSE where int raises
\* ValueError.
is_int(s) == s # <<>> /\ \A i \in 1 .. Len(s) : s[i] \in Range(Digits)

RECURSIVE int(_)
int(s) ==
    IF s = <<>> THEN 0
    ELSE 10 * int(SubSeq(s, 1, Len(s) - 1))
           + ((CHOOSE d \in 1 .. 10 : Digits[d] = s[Len(s)]) - 1)

\* The key of min (lines 548-550): tuple(map(int, ....split(".")))
version_key_mutant_text(v) ==
    LET t == strip_version(v)
    IN  [i \in 1 .. Len(t) |->
            IF t[i] = "." THEN 0
            ELSE CHOOSE d \in 1 .. 10 : Digits[d] = t[i]]

version_key(v) ==
    LET parts == split(strip_version(v))
    IN  [i \in 1 .. Len(parts) |-> int(parts[i])]

\* Whether the key of min can be computed for the response x.
has_key(x) ==
    /\ x.has_version
    /\ \A part \in Range(split(strip_version(x.version))) : is_int(part)

\* a < b for tuples of integers
tuple_less(a, b) ==
    \/ \E i \in 1 .. Len(a) :
          /\ i <= Len(b)
          /\ a[i] < b[i]
          /\ \A j \in 1 .. i - 1 : a[j] = b[j]
    \/ /\ Len(a) < Len(b)
       /\ \A j \in 1 .. Len(a) : a[j] = b[j]

\* min(responses, key=...): the first of the smallest.
lowest_version(responses) ==
    responses[CHOOSE i \in 1 .. Len(responses) :
        /\ \A j \in 1 .. Len(responses) :
              ~tuple_less(version_key(responses[j].version),
                          version_key(responses[i].version))
        /\ \A j \in 1 .. i - 1 :
              tuple_less(version_key(responses[i].version),
                         version_key(responses[j].version))]

\* Lines 529-541: the enabled backends, one task each.
version_tasks(configs, urls) ==
    SelectSeq([k \in 1 .. Len(urls) |-> k - 1],
              LAMBDA idx : Get(api_config_for(configs, urls, idx),
                               "enable", TRUE))

\* GET /api/version while the API is switched off (line 582).
get_versions_off(url_idx) ==
    /\ ReqFree
    /\ ~ENABLE_DOCKER_MODEL_RUNNER_API
    /\ req' = [NoReq EXCEPT !.op = "version", !.pc = "done",
                  !.url_idx = url_idx, !.status = 200]
    /\ UNCHANGED others

\* GET /api/version (lines 526-543): the tasks, then the await of gather.
get_versions_start ==
    /\ ReqFree
    /\ ENABLE_DOCKER_MODEL_RUNNER_API
    /\ req' = [NoReq EXCEPT !.op = "version", !.pc = "gather",
                  !.tasks = version_tasks(DOCKER_MODEL_RUNNER_API_CONFIGS,
                                          DOCKER_MODEL_RUNNER_BASE_URLS)]
    /\ UNCHANGED others

\* gather returns (lines 543-558); answers[k] is what the backend of task k
\* yielded: a timeout yields None like every other failure.
get_versions_gathered(answers, arrival) ==
    LET wire == gather(answers, arrival)
        responses == SelectSeq(wire, LAMBDA x : x.ok)
    IN  /\ req.op = "version" /\ req.pc = "gather"
        /\ req' =
              IF Len(responses) = 0
              THEN [req EXCEPT !.pc = "done", !.wire = wire, !.status = 500,
                       !.detail = "Docker Model Runner not found"]
              ELSE IF \E k \in 1 .. Len(responses) : ~has_key(responses[k])
              THEN \* KeyError or ValueError in the key of min: not handled
                   [req EXCEPT !.pc = "done", !.wire = wire, !.status = 500,
                       !.detail = "Internal Server Error"]
              ELSE [req EXCEPT !.pc = "done", !.wire = wire, !.status = 200,
                       !.ret = lowest_version(responses).version]
        /\ UNCHANGED others

\* What a synchronous requests.request call to one backend ends in: it
\* never returns ("hang": the call carries no timeout), it raises
\* ("refused"), or it returns a success or an error status with a JSON body
\* or with a body that is no JSON.
PinnedAnswers == {"hang", "refused", "ok", "error_json", "error_text", "ok_text"}

\* Lines 443-458 and 565-580: the pinned request did not yield a JSON body
\* of a success response.  bool(r) of a requests.Response is r.ok, so an
\* error status is reported as 500.
pinned_failure(r, answer) ==
    CASE answer = "refused" ->
            [r EXCEPT !.pc = "done", !.status = 500,
                      !.detail = "Open WebUI: Server Connection Error"]
      [] answer = "error_json" ->
            [r EXCEPT !.pc = "done", !.status = 500,
                      !.detail = "Docker Model Runner: res['error']"]
      [] answer = "error_text" ->
            [r EXCEPT !.pc = "done", !.status = 500,
                      !.detail = "Docker Model Runner: {e}"]
      [] OTHER -> \* "ok_text": r.json() raises on a success response
            [r EXCEPT !.pc = "done", !.status = 200,
                      !.detail = "Docker Model Runner: {e}"]

\* GET /api/version/{url_idx} (lines 559-580): one synchronous request.
get_versions_pinned(url_idx, answer, version) ==
    LET r == [NoReq EXCEPT !.op = "version", !.url_idx = url_idx]
    IN  /\ ReqFree
        /\ ENABLE_DOCKER_MODEL_RUNNER_API
        /\ req' =
              IF url_idx \notin Indices(DOCKER_MODEL_RUNNER_BASE_URLS)
              THEN [r EXCEPT !.pc = "done", !.status = 500,
                             !.detail = "Internal Server Error"]
              ELSE IF answer = "hang" THEN [r EXCEPT !.pc = "blocked"]
              ELSE IF answer = "ok"
              THEN [r EXCEPT !.pc = "done", !.status = 200, !.ret = version]
              ELSE pinned_failure(r, answer)
        /\ UNCHANGED others

\* GET /api/tags/{url_idx} (lines 419-463): one synchronous request, then
\* the filter for a user without privileges.
get_tags_pinned(user, url_idx, answer, listing, readable) ==
    LET r == [NoReq EXCEPT !.op = "tags", !.url_idx = url_idx,
                           !.user = user, !.readable = readable]
        models == JsonResponse(listing, url_idx).models
    IN  /\ ReqFree
        /\ req' =
              IF url_idx \notin Indices(DOCKER_MODEL_RUNNER_BASE_URLS)
              THEN [r EXCEPT !.pc = "done", !.status = 500,
                             !.detail = "Internal Server Error"]
              ELSE IF answer = "hang" THEN [r EXCEPT !.pc = "blocked"]
              ELSE IF answer = "ok"
              THEN [r EXCEPT !.pc = "done", !.status = 200, !.wire = models,
                             !.ret = IF is_filtered(user)
                                     THEN get_filtered_models(models, readable)
                                     ELSE models]
              ELSE pinned_failure(r, answer)
        /\ UNCHANGED others

\* POST /verify (lines 204-216): the session and the GET, with a timeout.
verify_start ==
    /\ ReqFree
    /\ req' = [NoReq EXCEPT !.op = "verify", !.pc = "gather"]
    /\ UNCHANGED others

\* Lines 232-250: the GET is over; a backend that hangs ends in the timeout.
verify_returns(answer, version) ==
    /\ req.op = "verify" /\ req.pc = "gather"
    /\ req' =
          CASE answer = "ok" ->
                  [req EXCEPT !.pc = "done", !.status = 200, !.ret = version]
            [] answer \in {"hang", "refused"} ->
                  [req EXCEPT !.pc = "done", !.status = 500,
                      !.detail = "Open WebUI: Server Connection Error"]
            [] OTHER ->
                  [req EXCEPT !.pc = "done", !.status = 500,
                      !.detail = "Unexpected error: {e}"]
    /\ UNCHANGED others

\* GET /api/ps (lines 466-492): the fan-out of get_loaded_models, or the
\* empty listing while the API is switched off.
get_loaded_models_start ==
    /\ ReqFree
    /\ req' =
          IF ENABLE_DOCKER_MODEL_RUNNER_API
          THEN [NoReq EXCEPT !.op = "ps", !.pc = "gather",
                   !.tasks = request_tasks(DOCKER_MODEL_RUNNER_API_CONFIGS,
                                           DOCKER_MODEL_RUNNER_BASE_URLS)]
          ELSE [NoReq EXCEPT !.op = "ps", !.pc = "done", !.status = 200]
    /\ UNCHANGED others

\* gather returns (lines 492-519); up are the backends that answered.
get_loaded_models_gathered(up, arrival) ==
    LET wire == [k \in 1 .. Len(req.tasks) |->
                    IF req.tasks[k] /\ k \in up THEN PsResponse
                    ELSE NoneResponse]
        gathered == gather(wire, arrival)
    IN  /\ req.op = "ps" /\ req.pc = "gather"
        /\ req' =
              IF IndexError(gathered)
              THEN [req EXCEPT !.pc = "done", !.wire = wire, !.status = 500,
                       !.detail = "Internal Server Error"]
              ELSE [req EXCEPT !.pc = "done", !.wire = wire, !.status = 200,
                       !.ret = loaded_models(gathered,
                                   DOCKER_MODEL_RUNNER_API_CONFIGS,
                                   DOCKER_MODEL_RUNNER_BASE_URLS)]
        /\ UNCHANGED others

(***************************************************************************)
(* POST /api/pull.                                                         *)
(***************************************************************************)
\* stream: bool = True (line 104): what send_post_request does when the
\* caller passes no stream argument.
stream_default == TRUE

\* pull_model (lines 590-611); url_idx = Unpinned stands for a request
\* without an index in its path, which the handler takes as 0.  The call of
\* send_post_request passes no stream argument.
pull_model(url_idx) ==
    LET idx == IF url_idx = Unpinned THEN 0 ELSE url_idx
    IN  /\ post.pc \in {"none", "raised", "returned", "closed"}
        /\ post' =
              IF idx \notin Indices(DOCKER_MODEL_RUNNER_BASE_URLS)
              THEN \* line 601 raises IndexError
                   [NoPost EXCEPT !.pc = "raised", !.caller = "pull",
                       !.pending = "raise", !.status = 500,
                       !.detail = "Internal Server Error"]
              ELSE [NoPost EXCEPT !.pc = "post", !.caller = "pull",
                       !.stream = stream_default,
                       !.url = At(DOCKER_MODEL_RUNNER_BASE_URLS, idx),
                       !.insecure = TRUE]
        /\ UNCHANGED rest

(***************************************************************************)
(* POST /config/update with the form kept in view.                         *)
(***************************************************************************)
\* The config mappings of the forms: keys that are indices, a key that is a
\* URL and a key that is neither.
ConfigForms ==
    FormConfigs
    \cup {[key \in {Urls[1], "0"} |-> CfgPrefix],
          [key \in {"x", "1"} |-> CfgDisabled]}

\* The body of a POST /config/update request (DockerModelRunnerConfigForm).
config_form(enable, n, form) ==
    /\ ReqFree
    /\ updates < MaxUpdates
    /\ req' = [NoReq EXCEPT !.op = "update_config", !.pc = "done",
                  !.enable = enable, !.n = n, !.form = form]
    /\ UNCHANGED others

\* The handler runs on the form received.
submit_config ==
    /\ req.op = "update_config"
    /\ update_config(req.enable, req.n, req.form)

(***************************************************************************)
(* Specifications.                                                         *)
(***************************************************************************)
\* The registry as the process finds it when it starts.
Registries ==
    {<<SubSeq(Urls, 1, n), prune_configs(SubSeq(Urls, 1, n), configs)>> :
        n \in 0 .. MaxBackends, configs \in FormConfigs}
    \cup {<<SubSeq(Urls, 1, 1), [u \in {Urls[1]} |-> CfgDisabled]>>}

InitWith(registries) ==
    /\ ENABLE_DOCKER_MODEL_RUNNER_API \in BOOLEAN
    /\ \E reg \in registries :
          /\ DOCKER_MODEL_RUNNER_BASE_URLS = reg[1]
          /\ DOCKER_MODEL_RUNNER_API_CONFIGS = reg[2]
    /\ updates = 0
    /\ DOCKER_MODEL_RUNNER_MODELS = EmptyDict
    /\ cache = EmptyDict
    /\ calls = [p \in Slots |-> IdleCall]
    /\ last = NoChat
    /\ post = NoPost
    /\ req = NoReq

\* The catalog requests of the requesters rs, with the store states readables.
Catalog(rs, readables, answerset, psup) ==
    \/ \E p \in DOMAIN calls, r \in rs, readable \in readables :
          \/ get_all_models_hit(p, r, readable)
          \/ get_all_models_off(p, r, readable)
          \/ get_all_models_start(p, r)
    \/ \E p \in DOMAIN calls, readable \in readables :
          \E arrival \in ArrivalOrders(Len(calls[p].tasks)),
             answers \in [1 .. Len(calls[p].tasks) -> answerset] :
                get_all_models_gathered(p, answers, arrival, readable)
    \/ \E p \in DOMAIN calls, readable \in readables :
          \E ps \in psup[Len(calls[p].ps_tasks)],
             arrival \in ArrivalOrders(Len(calls[p].ps_tasks)) :
                get_all_models_loaded(p, ps, arrival, readable)

AnyUp == [n \in 0 .. MaxBackends |-> [1 .. n -> PsAnswers]]

Configure ==
    \E enable \in BOOLEAN, n \in 0 .. MaxBackends, configs \in FormConfigs :
        update_config(enable, n, configs)

\* Registry and catalog: the application refreshes the catalog without a
\* user, the administrator updates the registry, entries expire.
Init ==
    /\ InitWith(Registries)
    /\ BYPASS_MODEL_ACCESS_CONTROL = FALSE

Next ==
    \/ Catalog({[caller |-> "direct", user |-> NoUser]}, {{}}, Answers, AnyUp)
    \/ Tick
    \/ Configure

Spec == Init /\ [][Next]_vars

Chat(requests) ==
    \E in \in requests :
        \E pick \in IF reaches_choice(in)
                     THEN choices(Get(
                             DOCKER_MODEL_RUNNER_MODELS[payload_model(in)],
                             "urls", <<>>))
                     ELSE {0} :
            generate_chat_completion(in, pick)

NoneUp == [n \in 0 .. MaxBackends |-> {[k \in 1 .. n |-> "none"]}]

\* Routing: the catalog is refreshed, the administrator updates the registry
\* and sends chat requests; no cache entry expires.
InitChat ==
    /\ InitWith(Registries)
    /\ BYPASS_MODEL_ACCESS_CONTROL = FALSE

NextChat ==
    \/ Catalog({[caller |-> "direct", user |-> NoUser]}, {{}}, Answers, NoneUp)
    \/ Configure
    \/ Chat(RoutingRequests)

SpecChat == InitChat /\ [][NextChat]_vars

\* Access: one backend without configuration, with the access checks
\* bypassed by the environment or not; both users send chat requests.
OneBackend == {<<SubSeq(Urls, 1, 1), EmptyDict>>}

InitAccess ==
    /\ InitWith(OneBackend)
    /\ BYPASS_MODEL_ACCESS_CONTROL \in BOOLEAN

NextAccess ==
    \/ Catalog({[caller |-> "direct", user |-> NoUser]}, {{}}, Answers, NoneUp)
    \/ Tick
    \/ Chat(AccessRequests)

SpecAccess == InitAccess /\ [][NextAccess]_vars

\* Cache: one backend without configuration; every requester asks for the
\* catalog, through get_tags or directly, while the metadata store changes
\* and the entries expire.
InitCache ==
    /\ InitWith(OneBackend)
    /\ BYPASS_MODEL_ACCESS_CONTROL = FALSE

NextCache ==
    \/ Catalog(Requesters, Readables, Answers, NoneUp)
    \/ Tick

SpecCache == InitCache /\ [][NextCache]_vars

\* Tag listings: one backend without configuration, with the access checks
\* bypassed by the environment or not; both users ask for the listing, of
\* all backends or of one, while the metadata store changes.
InitTags ==
    /\ InitWith(OneBackend)
    /\ BYPASS_MODEL_ACCESS_CONTROL \in BOOLEAN

NextTags ==
    \/ Catalog({[caller |-> "get_tags", user |-> u] : u \in Users},
               Readables, Answers, NoneUp)
    \/ \E user \in Users, url_idx \in 0 .. 1, answer \in {"ok", "refused"} :
          \E listing \in IF answer = "ok" THEN Listings ELSE {<<>>},
             readable \in IF answer = "ok" THEN Readables ELSE {{}} :
                get_tags_pinned(user, url_idx, answer, listing, readable)

SpecTags == InitTags /\ [][NextTags]_vars

\* Concurrency: one backend without configuration; the application starts
\* refreshes that overlap, and the administrator sends chat requests that
\* are resolved through the index in between.
Concurrent == 1 .. (MaxCalls + 1)

ResolveRequests ==
    {ChatRequest(UserA, model, Unpinned, NoInfo, FALSE, TRUE, TRUE) :
        model \in {NameM1, NameM}}

InitConc ==
    /\ ENABLE_DOCKER_MODEL_RUNNER_API \in BOOLEAN
    /\ DOCKER_MODEL_RUNNER_BASE_URLS = SubSeq(Urls, 1, 1)
    /\ DOCKER_MODEL_RUNNER_API_CONFIGS = EmptyDict
    /\ updates = 0
    /\ DOCKER_MODEL_RUNNER_MODELS = EmptyDict
    /\ cache = EmptyDict
    /\ calls = [p \in Concurrent |-> IdleCall]
    /\ last = NoChat
    /\ post = NoPost
    /\ req = NoReq
    /\ BYPASS_MODEL_ACCESS_CONTROL = FALSE

NextConc ==
    \/ Catalog({[caller |-> "direct", user |-> NoUser]}, {{}}, Answers, NoneUp)
    \/ Chat(ResolveRequests)

SpecConc == InitConc /\ [][NextConc]_vars

\* The other endpoints: version queries, pinned tag listings, connection
\* checks and loaded-model queries, one after the other.
InitOps ==
    /\ InitWith(Registries)
    /\ BYPASS_MODEL_ACCESS_CONTROL = FALSE

NextOps ==
    \/ \E url_idx \in Unpinned .. 0 : get_versions_off(url_idx)
    \/ get_versions_start
    \/ \E answers \in [1 .. Len(req.tasks) -> VersionAnswers],
          arrival \in ArrivalOrders(Len(req.tasks)) :
            get_versions_gathered(answers, arrival)
    \/ \E url_idx \in 0 .. MaxBackends, answer \in PinnedAnswers,
          version \in {V120} :
            get_versions_pinned(url_idx, answer, version)
    \/ \E user \in Users, url_idx \in 0 .. MaxBackends,
          answer \in PinnedAnswers :
            \E listing \in IF answer = "ok" THEN Listings ELSE {<<>>},
               readable \in IF answer = "ok" /\ is_filtered(user)
                            THEN Readables ELSE {{}} :
                get_tags_pinned(user, url_idx, answer, listing, readable)
    \/ verify_start
    \/ \E answer \in PinnedAnswers, version \in {V120} :
          verify_returns(answer, version)
    \/ get_loaded_models_start
    \/ \E up \in SUBSET (1 .. Len(req.tasks)),
          arrival \in ArrivalOrders(Len(req.tasks)) :
            get_loaded_models_gathered(up, arrival)

SpecOps == InitOps /\ [][NextOps]_vars

\* Every handler that can take a step eventually takes one.
SpecOpsLive == SpecOps /\ WF_vars(NextOps)

\* Registry updates: the administrator's forms arrive and are stored.
InitConfig ==
    /\ InitWith(Registries)
    /\ BYPASS_MODEL_ACCESS_CONTROL = FALSE

NextConfig ==
    \/ \E enable \in BOOLEAN, n \in 0 .. MaxBackends, form \in ConfigForms :
          config_form(enable, n, form)
    \/ submit_config

SpecConfig == InitConfig /\ [][NextConfig]_vars

\* Transport: POST calls one after the other, streamed or buffered.
InitPost ==
    /\ InitWith(OneBackend)
    /\ ENABLE_DOCKER_MODEL_RUNNER_API
    /\ BYPASS_MODEL_ACCESS_CONTROL = FALSE

NextPost ==
    \/ \E stream \in BOOLEAN : post_call(stream)
    \/ \E url_idx \in Unpinned .. 1 : pull_model(url_idx)
    \/ post_fails
    \/ \E status \in Statuses, body \in Bodies : post_responds(status, body)
    \/ post_error_body
    \/ post_success
    \/ post_finally
    \/ stream_chunk
    \/ \E how \in {"consumed", "disconnect"} : stream_ends(how)
    \/ background_task

SpecPost == InitPost /\ [][NextPost]_vars

(***************************************************************************)
(* Claims about the transport (SpecPost).                                  *)
(***************************************************************************)
\* A POST call is over: it raised, returned a buffered body, or its
\* streamed response ended and the background task ran.
post_over == post.pc \in {"raised", "returned", "closed"}

\* C1: a streamed POST call (stream=true) releases the upstream response and
\* the session exactly once on every exit path: when the POST itself fails,
\* when the upstream answers a non-success status with or without a body
\* that parses, when the stream is consumed and when the client goes away;
\* never twice and never not at all.
C1_ReleasedOnce ==
    post.stream =>
        /\ post.session_closed <= 1
        /\ post.response_closed <= 1
        /\ post_over =>
              /\ post.session_closed = 1
              /\ post.r # NoStatus => post.response_closed = 1

\* C9: a POST the upstream answers with a non-success status ends in an
\* error that carries the upstream's status, with the upstream's "error"
\* field as detail when the body parses and has one and the generic message
\* when the body does not parse; it never returns a success.  An error
\* raised before any status is known carries 500.
C9_UpstreamError ==
    post.pc \in {"finally", "raised", "returned", "streaming", "background",
                 "closed"} =>
        /\ (post.r # NoStatus /\ ~ok(post.r)) =>
              /\ post.pending = "raise"
              /\ post.pc \in {"finally", "raised"}
              /\ post.status = post.r
              /\ post.body = "error" => post.detail = UpstreamError
              /\ post.body = "not_json" =>
                    post.detail = ServerConnectionError
        /\ post.r = NoStatus =>
              /\ post.pending = "raise"
              /\ post.status = 500

C9_Witness ==
    /\ post.pc = "raised"
    /\ post.r = 404
    /\ post.body = "error"
    /\ post.status = 404
    /\ post.detail = UpstreamError

(***************************************************************************)
(* Claims about the catalog refresh (Spec).                                *)
(***************************************************************************)
\* The names of a list of records, in order.
NamesOf(models) == [i \in 1 .. Len(models) |-> models[i]["model"]]

\* How often the name occurs in a list of records.
Count(models, name) ==
    Cardinality({i \in 1 .. Len(models) : models[i]["model"] = name})

\* The backends whose slot of `responses` lists the name.
ListedBy(responses, name) ==
    {k - 1 : k \in {j \in 1 .. Len(responses) :
                       responses[j].ok /\ Count(responses[j].models, name) > 0}}

\* A call of get_all_models that ran the fan-out and has its /api/tags
\* results merged.
Merged(c) == c.pc \in {"ps", "done"} /\ ~c.hit /\ c.status # 500 /\ c.tasks # <<>>

\* The catalog the call has so far: the merged one, or the returned one.
CatalogOf(c) == IF c.pc = "done" THEN c.ret ELSE c.models

\* C2: a refresh issues no network call to a backend whose configuration
\* has enable=false, neither for /api/tags nor for /api/ps; it keeps one
\* result slot per backend of the registry, so that slot i holds what backend
\* i answered; and every index in the served_by list ("urls") of a merged
\* record is the index of a backend that was enabled.
C2_DisabledSkipped ==
    \A p \in Slots :
        LET c == calls[p]
        IN  /\ c.pc = "gather" \/ Merged(c) =>
                  /\ Len(c.tasks) = c.backends
                  /\ \A k \in 1 .. Len(c.tasks) :
                        c.tasks[k] => (k - 1) \notin c.disabled
            /\ \A k \in 1 .. Len(c.ps_tasks) :
                  c.ps_tasks[k] => (k - 1) \notin c.ps_disabled
            /\ Merged(c) =>
                  /\ Len(c.wire) = c.backends
                  /\ Len(c.responses) = c.backends
                  /\ \A k \in 1 .. c.backends :
                        /\ c.wire[k].ok => c.tasks[k]
                        /\ c.responses[k].ok = c.wire[k].ok
                        /\ \A i \in 1 .. Len(c.responses[k].models) :
                              c.responses[k].models[i].digest = k - 1
                  /\ \A i \in 1 .. Len(CatalogOf(c)) :
                        \A idx \in Range(CatalogOf(c)[i]["urls"]) :
                            /\ idx \in 0 .. c.backends - 1
                            /\ idx \notin c.disabled

\* A refresh over two backends, one disabled, has returned the models of the
\* other one.
C2_Witness ==
    \E p \in DOMAIN calls :
        /\ Merged(calls[p])
        /\ calls[p].pc = "done"
        /\ calls[p].backends = 2
        /\ calls[p].disabled # {}
        /\ calls[p].ret # <<>>

\* C5: a refresh never fails because backends are unreachable.  Whatever the
\* subset of backends that do not answer, the refresh returns a catalog that
\* holds every model of the (transformed) listing of every backend that did
\* answer, served by each backend that lists it, and the backends that failed
\* contribute nothing.  The one failure
\* of a refresh needs a registry update during the fan-out and a backend that
\* answered.
C5_FailuresTolerated ==
    \A p \in Slots :
        LET c == calls[p]
            answered == {k \in 1 .. Len(c.wire) : c.wire[k].ok}
        IN  (c.pc = "done" /\ ~c.hit /\ c.tasks # <<>>) =>
                /\ c.status \in {200, 500}
                /\ c.status = 500 => updates > 0 /\ answered # {}
                /\ c.status = 200 =>
                      /\ \A k \in answered :
                            \A i \in 1 .. Len(c.responses[k].models) :
                                Count(c.ret, c.responses[k].models[i]["model"]) = 1
                      /\ \A i \in 1 .. Len(c.ret) :
                            /\ Range(c.ret[i]["urls"]) # {}
                            /\ \A idx \in Range(c.ret[i]["urls"]) :
                                  idx + 1 \in answered
                            /\ Range(c.ret[i]["urls"]) =
                                  ListedBy(c.responses, c.ret[i]["model"])
                      /\ updates = 0 =>
                            c.responses = transform_responses(c.wire,
                                DOCKER_MODEL_RUNNER_API_CONFIGS,
                                DOCKER_MODEL_RUNNER_BASE_URLS)

\* One of two enabled backends did not answer, the catalog has the models of
\* the other one.
C5_Witness ==
    \E p \in DOMAIN calls :
        LET c == calls[p]
        IN  /\ c.pc = "done" /\ ~c.hit /\ c.status = 200
            /\ c.backends = 2
            /\ c.tasks = <<TRUE, TRUE>>
            /\ ~c.wire[1].ok
            /\ c.wire[2].ok
            /\ Len(c.ret) = 3

\* C10: the result of a refresh does not depend on the order in which the
\* backends' answers arrive.  Slot k of the gathered results is the answer of
\* backend k - 1; the catalog lists the names in the order in which a merge in
\* registry order first meets them, and the served_by list of a name holds
\* the backends listing it in ascending order, one entry per listing.  With
\* the registry unchanged the catalog is thereby a function of the answers:
\* two refreshes with the same answers have the same names and served_by.
FirstSlot(responses, name) ==
    CHOOSE k \in 1 .. Len(responses) :
        /\ (k - 1) \in ListedBy(responses, name)
        /\ \A j \in 1 .. k - 1 : (j - 1) \notin ListedBy(responses, name)

FirstPlace(responses, name) ==
    LET models == responses[FirstSlot(responses, name)].models
    IN  CHOOSE i \in 1 .. Len(models) :
            /\ models[i]["model"] = name
            /\ \A j \in 1 .. i - 1 : models[j]["model"] # name

Before(responses, a, b) ==
    \/ FirstSlot(responses, a) < FirstSlot(responses, b)
    \/ /\ FirstSlot(responses, a) = FirstSlot(responses, b)
       /\ FirstPlace(responses, a) < FirstPlace(responses, b)

RegistryOrderMerge(responses, catalog) ==
    /\ \A k \in 1 .. Len(responses) :
          \A i \in 1 .. Len(responses[k].models) :
              Count(catalog, responses[k].models[i]["model"]) = 1
    /\ \A i \in 1 .. Len(catalog) :
          LET name == catalog[i]["model"]
              urls == catalog[i]["urls"]
          IN  /\ Range(urls) = ListedBy(responses, name)
              /\ Range(urls) # {}
              /\ \A a, b \in 1 .. Len(urls) : a < b => urls[a] <= urls[b]
              /\ \A idx \in Range(urls) :
                    Cardinality({a \in 1 .. Len(urls) : urls[a] = idx})
                        = Count(responses[idx + 1].models, name)
              /\ catalog[i].digest = FirstSlot(responses, name) - 1
    /\ \A i, j \in 1 .. Len(catalog) :
          i < j => Before(responses, catalog[i]["model"], catalog[j]["model"])

SameCatalog(a, b) ==
    /\ NamesOf(a) = NamesOf(b)
    /\ \A i \in 1 .. Len(a) : a[i]["urls"] = b[i]["urls"]

C10_OrderIndependent ==
    \A p \in Slots :
        LET c == calls[p]
        IN  Merged(c) =>
                /\ \A k \in 1 .. Len(c.responses) :
                      /\ c.responses[k].ok = c.wire[k].ok
                      /\ \A i \in 1 .. Len(c.responses[k].models) :
                            c.responses[k].models[i].digest = k - 1
                /\ RegistryOrderMerge(c.responses, CatalogOf(c))
                /\ SameCatalog(c.models, CatalogOf(c))
                /\ updates = 0 =>
                      c.responses = transform_responses(c.wire,
                          DOCKER_MODEL_RUNNER_API_CONFIGS,
                          DOCKER_MODEL_RUNNER_BASE_URLS)
                /\ \A q \in Slots :
                      (Merged(calls[q]) /\ calls[q].responses = c.responses) =>
                          SameCatalog(CatalogOf(calls[q]), CatalogOf(c))

\* Two backends answered with different listings that share a name; the
\* refresh has returned.
C10_Witness ==
    \E p \in DOMAIN calls :
        LET c == calls[p]
        IN  /\ Merged(c) /\ c.pc = "done"
            /\ c.backends = 2
            /\ c.wire[1].ok /\ c.wire[2].ok
            /\ c.wire[1] # c.wire[2]
            /\ \E i \in 1 .. Len(c.ret) : c.ret[i]["urls"] = <<0, 1>>
            /\ Len(c.ret) > 1

(***************************************************************************)
(* Claims about routing (SpecChat) and access (SpecAccess).                *)
(***************************************************************************)
\* A refresh that ran the fan-out has returned its catalog in slot p.
Refreshed(p) == Merged(calls[p]) /\ calls[p].pc = "done"

\* The step in which the call of slot p returns a computed catalog.
Returns(p) ==
    /\ calls'[p] # calls[p]
    /\ calls'[p].pc = "done"
    /\ ~calls'[p].hit
    /\ calls'[p].status = 200

\* The name a chat request asks for after normalisation: without a tag it
\* gets the tag "latest".
Tagged(name) == \E i \in 1 .. Len(name) : name[i] = ":"
Normalised(name) == IF Tagged(name) THEN name ELSE name \o Latest

\* A chat request that passed validation and the access checks, and asks for
\* the name it carries.
Routed(r) == r.op = "chat" /\ r.in.valid /\ r.status # 403

\* C3: after a refresh every post-transform model name has exactly one
\* record in the catalog and in the name->record index; the served_by list of
\* the record is non-empty and holds exactly the backends whose transformed
\* listing has the name; and resolving the name without a pinned backend
\* yields an index of that list.
C3_StateInv ==
    /\ \A p \in Slots :
          Refreshed(p) =>
              LET c == calls[p]
              IN  /\ \A k \in 1 .. Len(c.responses) :
                        \A i \in 1 .. Len(c.responses[k].models) :
                            Count(c.ret, c.responses[k].models[i]["model"]) = 1
                  /\ \A i \in 1 .. Len(c.ret) :
                        /\ Count(c.ret, c.ret[i]["model"]) = 1
                        /\ c.ret[i]["urls"] # <<>>
                        /\ Range(c.ret[i]["urls"]) =
                              ListedBy(c.responses, c.ret[i]["model"])
    /\ \A name \in DOMAIN DOCKER_MODEL_RUNNER_MODELS :
          /\ DOCKER_MODEL_RUNNER_MODELS[name]["model"] = name
          /\ DOCKER_MODEL_RUNNER_MODELS[name]["urls"] # <<>>
    /\ (Routed(last) /\ last.in.url_idx = Unpinned /\ last.forwarded) =>
          /\ Normalised(last.in.model) \in DOMAIN DOCKER_MODEL_RUNNER_MODELS
          /\ last.url_idx \in Range(
                DOCKER_MODEL_RUNNER_MODELS[Normalised(last.in.model)]["urls"])

C3_IndexStep ==
    \A p \in Slots :
        Returns(p) =>
            /\ DOMAIN DOCKER_MODEL_RUNNER_MODELS' = Range(NamesOf(calls'[p].ret))
            /\ \A i \in 1 .. Len(calls'[p].ret) :
                  DOCKER_MODEL_RUNNER_MODELS'[calls'[p].ret[i]["model"]]
                      = calls'[p].ret[i]

C3_CatalogAndIndex == []C3_StateInv /\ [][C3_IndexStep]_vars

\* A name that only backend 1 of two enabled backends lists was resolved
\* without a pinned backend, and the request went to backend 1.
C3_Witness ==
    /\ \E p \in DOMAIN calls : Refreshed(p) /\ calls[p].tasks = <<TRUE, TRUE>>
    /\ Routed(last) /\ last.in.url_idx = Unpinned /\ last.forwarded
    /\ last.url_idx = 1
    /\ DOCKER_MODEL_RUNNER_MODELS[Normalised(last.in.model)]["urls"] = <<1>>

\* C4: for every backend configured with a prefix p that lists a model with
\* the native name n, the catalog has a record named p.n, and a chat request
\* for p.n resolved to that backend is forwarded with the model set to n,
\* for every p and n.  (Stated for the names n the backend's allow-list
\* keeps, for native names that carry a tag, and for an unchanged registry.)
C4_PrefixRoundTrip ==
    \A p \in Slots :
        (Refreshed(p) /\ updates = 0) =>
            \A k \in 1 .. Len(calls[p].wire) :
                LET prefix_id == Get(api_config_for(
                                        DOCKER_MODEL_RUNNER_API_CONFIGS,
                                        DOCKER_MODEL_RUNNER_BASE_URLS, k - 1),
                                     "prefix_id", <<>>)
                IN  (calls[p].wire[k].ok /\ prefix_id # <<>>) =>
                        \A n \in Range(NamesOf(calls[p].wire[k].models)) :
                            (/\ Tagged(n)
                             /\ Count(calls[p].responses[k].models,
                                      prefixed(prefix_id, n)) > 0) =>
                                /\ Count(calls[p].ret, prefixed(prefix_id, n)) = 1
                                /\ (/\ Routed(last)
                                    /\ last.forwarded
                                    /\ last.url_idx = k - 1
                                    /\ last.in.model = prefixed(prefix_id, n))
                                   => last.model = n

\* C7: a chat request without a pinned backend whose normalised model name is
\* not in the index fails with status 400 and a message naming the model, and
\* nothing is forwarded; a request with a pinned backend does not consult the
\* index and never fails with this error.
C7_ModelNotFound ==
    Routed(last) =>
        /\ (/\ last.in.url_idx = Unpinned
            /\ Normalised(last.in.model) \notin DOMAIN DOCKER_MODEL_RUNNER_MODELS)
           => /\ last.status = 400
              /\ last.detail = MODEL_NOT_FOUND(Normalised(last.in.model))
              /\ Contains(last.detail, Normalised(last.in.model))
              /\ ~last.forwarded
        /\ last.in.url_idx # Unpinned =>
              /\ ~last.consulted
              /\ last.status # 400
              /\ \A name \in ChatNames :
                    last.detail # MODEL_NOT_FOUND(Normalised(name))

\* The catalog has "m" of a backend; the request for "m" without a pinned
\* backend is answered 400: "m:latest" is not in the index.
C7_Witness ==
    /\ Routed(last)
    /\ last.in.url_idx = Unpinned
    /\ last.in.model = NameM
    /\ NameM \in DOMAIN DOCKER_MODEL_RUNNER_MODELS
    /\ last.status = 400
    /\ ~last.forwarded

\* C8: when the access checks are not bypassed, a chat request of a
\* non-privileged user is forwarded only if the model is registered in the
\* metadata store and the user owns it or may read it; in every other case
\* (registered without access, or not registered) the well-formed request
\* fails with status 403 before a backend is resolved or contacted.
C8_AccessChecked ==
    (/\ last.op = "chat"
     /\ last.in.valid
     /\ last.in.user.role = "user"
     /\ ~(last.in.bypass_filter \/ BYPASS_MODEL_ACCESS_CONTROL)) =>
        /\ last.forwarded => last.in.info.registered /\ last.in.info.readable
        /\ ~(last.in.info.registered /\ last.in.info.readable) =>
              /\ last.status = 403
              /\ ~last.forwarded
              /\ ~last.consulted
              /\ last.url_idx = Unpinned

\* The user asked for a model of the catalog that is registered and that the
\* user may not read: 403.
C8_Witness ==
    /\ last.op = "chat"
    /\ last.in.valid
    /\ last.in.user.role = "user"
    /\ ~(last.in.bypass_filter \/ BYPASS_MODEL_ACCESS_CONTROL)
    /\ last.in.info.registered
    /\ ~last.in.info.readable
    /\ Normalised(last.in.model) \in DOMAIN DOCKER_MODEL_RUNNER_MODELS
    /\ last.status = 403

(***************************************************************************)
(* Claims about the catalog cache (SpecCache).                             *)
(***************************************************************************)
\* C6: the catalog is cached per requesting identity for a fixed
\* time-to-live.  A request that finds its identity's entry gets the cached
\* catalog without a backend being contacted; all requests within the
\* time-to-live of an entry get the same value, the one that was computed;
\* an expired entry is not served; and no entry is served to another
\* identity.
C6_CachedPerIdentity ==
    /\ \A p \in Slots :
          LET c == calls[p]
              key == cache_key(c.user)
          IN  (c.pc = "done" /\ c.hit) =>
                  /\ c.tasks = <<>> /\ c.wire = <<>> /\ c.ps_tasks = <<>>
                  /\ key \in DOMAIN cache => c.ret = cache[key].computed
    /\ \A key \in DOMAIN cache : cache[key].left \in 1 .. MODELS_CACHE_TTL
    /\ \A u, v \in Users \cup {NoUser} : u # v => cache_key(u) # cache_key(v)

\* The step in which the call of slot p is served from the cache.
ServedFromCache(p) == calls'[p] # calls[p] /\ calls'[p].hit

C24_CacheIntact ==
    \A key \in DOMAIN cache : cache[key].value = cache[key].computed

C24_HitStep ==
    \A p \in DOMAIN calls :
        ServedFromCache(p) =>
            /\ DOCKER_MODEL_RUNNER_MODELS' = DOCKER_MODEL_RUNNER_MODELS
            /\ calls'[p].ret = cache[cache_key(calls'[p].user)].computed

\* C24: serving GET /api/tags to a user without privileges leaves the
\* cached catalog and the name->record index unchanged: the access filter
\* is applied to the response only, so a later request served from the
\* cache within the TTL starts from the unfiltered catalog that the refresh
\* computed, also when the user's rights have changed in between.
C24_FilterOnResponseOnly == []C24_CacheIntact /\ [][C24_HitStep]_vars

(***************************************************************************)
(* Claims about the other endpoints (SpecOps, SpecOpsLive).                *)
(***************************************************************************)
\* A request of these endpoints waits for its backends.
Waiting == req.pc \in {"gather", "blocked"}

\* C11: every operation of the gateway eventually completes even when a
\* backend never answers, because every outbound call carries a timeout: a
\* request that waits for a backend is eventually answered.
C11_Terminates == Waiting ~> (req.pc = "done")

\* An unpinned version query has been answered.
VersionDone == req.op = "version" /\ req.pc = "done" /\ req.url_idx = Unpinned

\* The versions the backends of the query reported.
Reported == {k \in 1 .. Len(req.wire) : req.wire[k].has_version}

\* major, minor and patch of the version strings of the model, as numbers.
Numeric(v) ==
    CASE v = V120 -> <<1, 2, 0>>
      [] v = V1100 -> <<1, 10, 0>>
      [] v = V125 -> <<1, 2, 5>>
      [] v = VRc -> <<1, 2, 0>>

Weight(v) == Numeric(v)[1] * 10000 + Numeric(v)[2] * 100 + Numeric(v)[3]

\* C12: an unpinned version query returns the version string of a
\* responding enabled backend whose parsed version (leading "v" and
\* pre-release suffix stripped, split on ".", components as integers) is the
\* smallest; components are compared as numbers, never as text; and
\* disabled backends are not queried.
C12_LowestVersion ==
    (VersionDone /\ ENABLE_DOCKER_MODEL_RUNNER_API) =>
        /\ Range(req.tasks) =
              Indices(DOCKER_MODEL_RUNNER_BASE_URLS)
                 \ DisabledIn(DOCKER_MODEL_RUNNER_API_CONFIGS,
                              DOCKER_MODEL_RUNNER_BASE_URLS)
        /\ Len(req.wire) = Len(req.tasks)
        /\ req.status = 200 =>
              /\ \E k \in Reported : req.ret = req.wire[k].version
              /\ \A k \in Reported :
                    Weight(req.ret) <= Weight(req.wire[k].version)
        /\ (Reported # {} /\ \A k \in 1 .. Len(req.wire) :
                                req.wire[k].ok => req.wire[k].has_version)
              => req.status = 200

\* Of v1.10.0 and v1.2.5 the query returned v1.2.5.
C12_Witness ==
    /\ VersionDone
    /\ req.status = 200
    /\ req.wire = <<VersionResponse(V1100), VersionResponse(V125)>>
    /\ req.ret = V125

\* C13: an unpinned version query fails with status 500 exactly when no
\* backend returns a version response; when at least one backend responds
\* with its version the query succeeds, whatever the failures of the others.
C13_Unavailable ==
    (VersionDone /\ ENABLE_DOCKER_MODEL_RUNNER_API) =>
        /\ req.status \in {200, 500}
        /\ req.status = 500 <=> Reported = {}

\* C14: a pull request is forwarded to exactly one backend (the given index,
\* 0 when none is given) with insecure: true in the payload, and it is always
\* handled in buffered mode: the upstream body is read and returned as JSON
\* and the response and the session are released before pull returns; it is
\* never relayed as a live stream.
C14_PullBuffered ==
    (post.caller = "pull" /\ post.pc # "raised") =>
        /\ post.insecure
        /\ post.url \in Range(DOCKER_MODEL_RUNNER_BASE_URLS)
        /\ ~post.stream
        /\ post.pc \notin {"streaming", "background", "closed"}
        /\ post.pc = "returned" =>
              /\ post.pending = "json"
              /\ post.session_closed = 1
              /\ post.response_closed = 1

\* send_post_request has been called (a pull request that fails on its
\* backend index never calls it).
post_called == post.pc # "none" /\ ~(post.caller = "pull" /\ post.url = "")

\* C22: for every call of send_post_request with stream=false,
\* cleanup_response is invoked exactly once for the call's response and
\* session, whether the call returns the parsed body or raises (non-success
\* status with a body that parses or not, transport failure, success body
\* that is no JSON), and the release has happened when the call returns or
\* raises.
C22_BufferedCleanupOnce ==
    (post_called /\ ~post.stream) =>
        /\ post.cleanups <= 1
        /\ post_over =>
              /\ post.cleanups = 1
              /\ post.session_closed = 1
              /\ post.r # NoStatus => post.response_closed = 1

(***************************************************************************)
(* Claims about the registry (SpecConfig).                                 *)
(***************************************************************************)
\* The string forms of the indices 0 .. n - 1.
IndexKeys(n) == {Digits[i] : i \in 1 .. n}

\* C15: after every config update every key of the stored config mapping is
\* the string form of an index in 0..N-1, N the length of the new URL list;
\* entries of the form with any other key are dropped without an error, and
\* entries whose key is such an index are kept with their value unchanged.
C15_KeysValid ==
    updates > 0 =>
        DOMAIN DOCKER_MODEL_RUNNER_API_CONFIGS
            \subseteq IndexKeys(Len(DOCKER_MODEL_RUNNER_BASE_URLS))

C15_UpdateStep ==
    (updates' = updates + 1 /\ req.op = "update_config") =>
        /\ Len(DOCKER_MODEL_RUNNER_BASE_URLS') = req.n
        /\ ENABLE_DOCKER_MODEL_RUNNER_API' = req.enable
        /\ DOMAIN DOCKER_MODEL_RUNNER_API_CONFIGS' =
              DOMAIN req.form \cap IndexKeys(req.n)
        /\ \A key \in DOMAIN DOCKER_MODEL_RUNNER_API_CONFIGS' :
              DOCKER_MODEL_RUNNER_API_CONFIGS'[key] = req.form[key]

C15_ConfigPruned == []C15_KeysValid /\ [][C15_UpdateStep]_vars

\* A form for one URL with entries under "0", "1" and "2" was stored: only
\* the entry under "0" is left.
C15_Witness ==
    /\ updates = 1
    /\ req.op = "update_config"
    /\ req.n = 1
    /\ DOMAIN req.form = {"0", "1", "2"}
    /\ DOMAIN DOCKER_MODEL_RUNNER_API_CONFIGS = {"0"}
    /\ DOCKER_MODEL_RUNNER_API_CONFIGS["0"] = req.form["0"]

(***************************************************************************)
(* Claims about the tag listings (SpecTags).                               *)
(***************************************************************************)
\* The listing of all backends that a finished GET /api/tags handed out.
Listed(p) ==
    calls[p].pc = "done" /\ calls[p].caller = "get_tags"
        /\ calls[p].status = 200

\* The listing of one backend that a finished GET /api/tags/{url_idx}
\* handed out.
ListedPinned == req.op = "tags" /\ req.pc = "done" /\ req.status = 200

\* C16: unless the access checks are bypassed by the environment, every
\* model of the listing that GET /api/tags returns to a user without
\* privileges, for all backends or for one, is registered in the metadata
\* store and owned by or readable for that user; an administrator, and
\* everybody under the bypass, gets the listing unfiltered.
C16_ListingFiltered ==
    /\ \A p \in DOMAIN calls :
          LET c == calls[p]
          IN  Listed(p) =>
                IF c.user.role = "user" /\ ~BYPASS_MODEL_ACCESS_CONTROL
                THEN /\ \A i \in 1 .. Len(c.body) :
                            c.body[i]["model"] \in c.readable
                     /\ \A i \in 1 .. Len(c.ret) :
                            c.ret[i]["model"] \in c.readable
                                => c.ret[i] \in Range(c.body)
                ELSE c.body = c.ret
    /\ ListedPinned =>
          IF req.user.role = "user" /\ ~BYPASS_MODEL_ACCESS_CONTROL
          THEN /\ \A i \in 1 .. Len(req.ret) :
                      req.ret[i]["model"] \in req.readable
               /\ \A i \in 1 .. Len(req.wire) :
                      req.wire[i]["model"] \in req.readable
                          => req.wire[i] \in Range(req.ret)
          ELSE req.ret = req.wire

\* A user without privileges got a listing of all backends and a listing of
\* one backend, each shorter than what the backends listed.
C16_Witness ==
    /\ ~BYPASS_MODEL_ACCESS_CONTROL
    /\ \E p \in DOMAIN calls :
          /\ Listed(p) /\ calls[p].user = UserU
          /\ calls[p].body # <<>>
          /\ Len(calls[p].body) < Len(calls[p].ret)
    /\ ListedPinned /\ req.user = UserU
    /\ req.ret # <<>>
    /\ Len(req.ret) < Len(req.wire)

(***************************************************************************)
(* Claims about concurrent refreshes (SpecConc).                           *)
(***************************************************************************)
\* The index is the name->record mapping of the catalog.
MappingOf(index, catalog) ==
    /\ DOMAIN index = Range(NamesOf(catalog))
    /\ \A i \in 1 .. Len(catalog) : index[catalog[i]["model"]] = catalog[i]

\* A refresh in slot p is under way: it waits for its backends.
Refreshing(p) == calls[p].pc \in {"gather", "ps"}

\* The refresh of slot p can take its next step whatever the other does.
CanGoOn(p) ==
    \/ \E answers \in [1 .. Len(calls[p].tasks) -> Answers] :
          ENABLED get_all_models_gathered(p, answers,
                      [k \in 1 .. Len(calls[p].tasks) |-> k], {})
    \/ ENABLED get_all_models_loaded(p,
                      [k \in 1 .. Len(calls[p].ps_tasks) |-> "none"],
                      [k \in 1 .. Len(calls[p].ps_tasks) |-> k], {})

\* C17: under every interleaving of concurrent refreshes and resolve calls
\* the index is always the complete mapping of one refresh that has
\* returned (or still the empty index of the start): a step changes it only
\* by replacing it with the mapping of the catalog that the refresh
\* returning in that step computed, so it is that of the last writer; a
\* resolve call leaves it alone; and a refresh never waits for another one.
C17_IndexStep ==
    /\ DOCKER_MODEL_RUNNER_MODELS' # DOCKER_MODEL_RUNNER_MODELS
          => \E p \in DOMAIN calls : Returns(p)
    /\ \A p \in DOMAIN calls :
          Returns(p) => MappingOf(DOCKER_MODEL_RUNNER_MODELS', calls'[p].ret)

C17_StateInv ==
    /\ \A name \in DOMAIN DOCKER_MODEL_RUNNER_MODELS :
          DOCKER_MODEL_RUNNER_MODELS[name]["model"] = name
    /\ \A p \in DOMAIN calls : Refreshing(p) => CanGoOn(p)

C17_AtomicIndex == []C17_StateInv /\ [][C17_IndexStep]_vars

\* Two refreshes overlapped (neither found the entry of the other in the
\* cache), both returned, with different catalogs, a chat request was
\* resolved afterwards, and the index is the mapping of the first slot's
\* catalog, which lists what the other does not.
C17_Witness ==
    /\ \A p \in 1 .. 2 :
          calls[p].pc = "done" /\ ~calls[p].hit /\ calls[p].status = 200
    /\ calls[1].tasks # <<>> /\ calls[2].tasks # <<>>
    /\ calls[1].ret # calls[2].ret
    /\ calls[2].ret # <<>>
    /\ Len(calls[1].ret) > Len(calls[2].ret)
    /\ MappingOf(DOCKER_MODEL_RUNNER_MODELS, calls[1].ret)
    /\ last # NoChat /\ last.forwarded

(***************************************************************************)
(* Claims about the merged records (Spec).                                 *)
(***************************************************************************)
\* The last slot whose response lists the name.
LastSlot(responses, name) ==
    CHOOSE k \in 1 .. Len(responses) :
        /\ (k - 1) \in ListedBy(responses, name)
        /\ \A j \in (k + 1) .. Len(responses) :
              (j - 1) \notin ListedBy(responses, name)

\* The record without its served_by list ("urls").
OtherFields(record) == [f \in DOMAIN record \ {"urls"} |-> record[f]]

\* The name is listed by several backends.
Shared(responses, name) == Cardinality(ListedBy(responses, name)) > 1

\* The record of the catalog with the name has the other fields of a record
\* that the response in slot k lists under the name.
FieldsFrom(record, responses, k) ==
    \E i \in 1 .. Len(responses[k].models) :
        /\ responses[k].models[i]["model"] = record["model"]
        /\ OtherFields(record) = OtherFields(responses[k].models[i])

\* C18, as the code has it: when several backends expose the same
\* post-transform name, the catalog holds one record for it whose served_by
\* list names all contributing backends, and whose other fields are those
\* of the backend that comes FIRST in registry order among them.
C18_FirstSeenWins ==
    \A p \in DOMAIN calls :
        LET c == calls[p]
        IN  Merged(c) =>
                \A i \in 1 .. Len(c.models) :
                    LET name == c.models[i]["model"]
                    IN  /\ Count(c.models, name) = 1
                        /\ Range(c.models[i]["urls"])
                              = ListedBy(c.responses, name)
                        /\ OtherFields(c.models[i])
                              = OtherFields(
                                  c.responses[FirstSlot(c.responses, name)]
                                    .models[FirstPlace(c.responses, name)])

\* C18, as stated: the other fields of a shared record are those of the
\* backend whose response is processed last in registry order.
C18_LastWriteWins ==
    \A p \in DOMAIN calls :
        LET c == calls[p]
        IN  Merged(c) =>
                \A i \in 1 .. Len(c.models) :
                    LET name == c.models[i]["model"]
                    IN  Shared(c.responses, name) =>
                            FieldsFrom(c.models[i], c.responses,
                                       LastSlot(c.responses, name))

\* Both backends list "m:1" with different digests; the catalog has one
\* record for it, served by 0 and 1, with the digest of backend 0.
C18_Witness ==
    \E p \in DOMAIN calls :
        LET c == calls[p]
        IN  /\ Merged(c)
            /\ \E i \in 1 .. Len(c.models) :
                  /\ c.models[i]["model"] = NameM1
                  /\ c.models[i]["urls"] = <<0, 1>>
                  /\ c.models[i].digest = 0
                  /\ FieldsFrom(c.models[i], c.responses, 1)
                  /\ ~FieldsFrom(c.models[i], c.responses, 2)

(***************************************************************************)
(* Claims about the expiry annotation (Spec).                              *)
(***************************************************************************)
\* The expiry timestamps the loaded listing of the call has for the name.
LoadedExpiry(c, name) ==
    {c.loaded[k]["expires_at"] :
        k \in {j \in 1 .. Len(c.loaded) :
                  /\ c.loaded[j]["model"] = name
                  /\ "expires_at" \in DOMAIN c.loaded[j]}}

\* Obtaining the loaded listing failed, or applying it did: a merged record
\* matches a loaded entry whose expiry is no ISO-8601 timestamp.
ListingFailed(c) ==
    \/ ~c.ps_ok
    \/ \E i \in 1 .. Len(c.models) :
          \E iso \in LoadedExpiry(c, c.models[i]["model"]) : iso # ExpiresIso

Annotated(record) == "expires_at" \in DOMAIN record

\* A refresh that asked for the loaded listing has returned in slot p.
Finished(p) == Refreshed(p) /\ calls[p].status = 200

C19_State ==
    \A p \in DOMAIN calls :
        LET c == calls[p]
        IN  Finished(p) =>
              /\ Len(c.ret) = Len(c.models)
              /\ \A i \in 1 .. Len(c.ret) :
                    [f \in DOMAIN c.ret[i] \ {"expires_at"} |-> c.ret[i][f]]
                        = c.models[i]
              /\ ListingFailed(c) =>
                    \A i \in 1 .. Len(c.ret) : ~Annotated(c.ret[i])
              /\ ~ListingFailed(c) =>
                    \A i \in 1 .. Len(c.ret) :
                        /\ Annotated(c.ret[i])
                              <=> LoadedExpiry(c, c.ret[i]["model"]) # {}
                        /\ Annotated(c.ret[i]) => c.ret[i]["expires_at"] = 10

C19_IndexStep ==
    \A p \in DOMAIN calls :
        Returns(p) => MappingOf(DOCKER_MODEL_RUNNER_MODELS', calls'[p].ret)

\* C19: if obtaining or applying the loaded listing fails during a refresh,
\* the refresh still succeeds: it returns the full merged catalog with no
\* record carrying an expiry annotation, and the index is replaced; when
\* the listing is obtained, exactly the merged records whose name matches a
\* loaded entry that has an expiry carry that expiry as an integer of epoch
\* seconds.
C19_ExpiryOrNothing == []C19_State /\ [][C19_IndexStep]_vars

(***************************************************************************)
(* Claims about the per-backend transforms (Spec).                         *)
(***************************************************************************)
\* The native names of the listing that pass the allow-list.
Allowed(names, allow) ==
    IF allow = <<>> THEN names
    ELSE SelectSeq(names, LAMBDA name : name \in Range(allow))

\* The names after the prefix of the configuration is put before them.
Renamed(names, cfg) ==
    [i \in 1 .. Len(names) |->
        IF "prefix_id" \in DOMAIN cfg
        THEN cfg["prefix_id"] \o <<".">> \o names[i] ELSE names[i]]

\* The records that the backend of slot k contributed to the refresh of the
\* call: the names are the allow-listed native names with the prefix, the
\* connection type is the configured one or "docker", and the tags are
\* `tags`.
Contributed(c, k, cfg, tags) ==
    LET models == c.responses[k].models
    IN  /\ NamesOf(models) =
              Renamed(Allowed(NamesOf(c.wire[k].models),
                              Get(cfg, "model_ids", <<>>)), cfg)
        /\ \A i \in 1 .. Len(models) :
              /\ models[i]["tags"] = tags
              /\ models[i]["connection_type"]
                    = Get(cfg, "connection_type", "docker")

\* The tags a backend sends with its records.
UpstreamTags == UpstreamModel(NameM1, 0)["tags"]

\* C20, as the code has it: after a refresh each model record contributed
\* by a backend carries that backend's configured tag set in place of the
\* upstream's tags when that tag set is not empty, and the upstream's tags
\* when no tags are configured; it carries the backend's connection-type
\* label ("docker" when none is configured); the allow-list is applied to
\* the native names before the prefix is added.
C20_TagsWhenConfigured ==
    \A p \in DOMAIN calls :
        LET c == calls[p]
        IN  (Merged(c) /\ updates = 0) =>
                \A k \in 1 .. Len(c.wire) :
                    LET cfg == api_config_for(DOCKER_MODEL_RUNNER_API_CONFIGS,
                                   DOCKER_MODEL_RUNNER_BASE_URLS, k - 1)
                    IN  c.wire[k].ok =>
                            Contributed(c, k, cfg,
                                IF Get(cfg, "tags", <<>>) # <<>>
                                THEN cfg["tags"] ELSE UpstreamTags)

\* C20, as stated: for every backend configuration, after a refresh each
\* model record contributed by that backend carries that backend's
\* configured tag set in place of any tags supplied by the upstream, and
\* that backend's connection-type label ("docker" when none is configured);
\* the allow-list is applied to the native names before the prefix is added.
C20_TagsAndLabel ==
    \A p \in DOMAIN calls :
        LET c == calls[p]
        IN  (Merged(c) /\ updates = 0) =>
                \A k \in 1 .. Len(c.wire) :
                    LET cfg == api_config_for(DOCKER_MODEL_RUNNER_API_CONFIGS,
                                   DOCKER_MODEL_RUNNER_BASE_URLS, k - 1)
                    IN  c.wire[k].ok =>
                            Contributed(c, k, cfg, Get(cfg, "tags", <<>>))


\* Backend 0 has tags, a label, a prefix and an allow-list configured and
\* backend 1 has nothing configured; both listed "a.m:1", "m" and "m:1".
\* Backend 0 contributed "a.a.m:1" and "a.m:1" with its tags and label,
\* backend 1 all three names with the upstream's tags and "docker".
C20_Witness ==
    \E p \in DOMAIN calls :
        LET c == calls[p]
        IN  /\ Merged(c) /\ updates = 0
            /\ Len(c.wire) = 2 /\ c.wire[1].ok /\ c.wire[2].ok
            /\ api_config_for(DOCKER_MODEL_RUNNER_API_CONFIGS,
                              DOCKER_MODEL_RUNNER_BASE_URLS, 0) = CfgPrefix
            /\ api_config_for(DOCKER_MODEL_RUNNER_API_CONFIGS,
                              DOCKER_MODEL_RUNNER_BASE_URLS, 1) = EmptyDict
            /\ NamesOf(c.wire[1].models) = <<NameAM1, NameM, NameM1>>
            /\ NamesOf(c.responses[1].models)
                  = <<prefixed(PrefixA, NameAM1), prefixed(PrefixA, NameM1)>>
            /\ c.responses[1].models[1]["tags"] = <<"t">>
            /\ c.responses[1].models[1]["connection_type"] = "local"
            /\ Len(c.responses[2].models) = 3
            /\ c.responses[2].models[1]["tags"] = <<"up">>
            /\ c.responses[2].models[1]["connection_type"] = "docker"

(***************************************************************************)
(* Claims about the index across registry updates (SpecChat).              *)
(***************************************************************************)
\* The backend indices the served_by lists of the index hold.
IndexedBackends ==
    UNION {Range(DOCKER_MODEL_RUNNER_MODELS[name]["urls"]) :
              name \in DOMAIN DOCKER_MODEL_RUNNER_MODELS}

\* C21: after any sequence of config updates, catalog refreshes (cache hits
\* that skip the refresh included) and chat requests, every backend index
\* in a served_by list of the name->record index is a position of the
\* current backend URL list, so a chat request without a pinned backend
\* never selects an index outside the list and fails, if it fails in the
\* resolve, only with the 400 of a model that is not found.
C21_IndexWithinRegistry ==
    /\ IndexedBackends \subseteq Indices(DOCKER_MODEL_RUNNER_BASE_URLS)
    /\ (Routed(last) /\ last.in.url_idx = Unpinned) =>
          \/ /\ last.forwarded
             /\ last.url_idx \in Indices(DOCKER_MODEL_RUNNER_BASE_URLS)
          \/ /\ last.status = 400
             /\ last.detail = MODEL_NOT_FOUND(Normalised(last.in.model))

(***************************************************************************)
(* Claims about disabled backends (SpecChat, and the other endpoints).     *)
(***************************************************************************)
\* The backends whose configuration has enable=false at this moment.
Disabled ==
    DisabledIn(DOCKER_MODEL_RUNNER_API_CONFIGS, DOCKER_MODEL_RUNNER_BASE_URLS)

\* The position of the URL in the backend list.
PositionsOf(url) ==
    {i \in Indices(DOCKER_MODEL_RUNNER_BASE_URLS) :
        At(DOCKER_MODEL_RUNNER_BASE_URLS, i) = url}

\* C23: a backend whose configuration has enable=false receives no outbound
\* request from any gateway operation while it stays disabled: not from a
\* catalog refresh, a loaded-model query or a version query, and not from a
\* chat or pull request, whether pinned to its index or routed through the
\* name->record index built before it was disabled.
C23_DisabledUntouched ==
    \* catalog refresh: /api/tags and /api/ps tasks
    /\ \A p \in DOMAIN calls :
          /\ \A k \in 1 .. Len(calls[p].tasks) :
                calls[p].tasks[k] => (k - 1) \notin calls[p].disabled
          /\ \A k \in 1 .. Len(calls[p].ps_tasks) :
                calls[p].ps_tasks[k] => (k - 1) \notin calls[p].ps_disabled
    \* version and loaded-model queries, pinned tag listings
    /\ (updates = 0 /\ req.op \in {"version", "tags", "ps"}) =>
          /\ (req.op = "ps") =>
                \A k \in 1 .. Len(req.tasks) :
                    req.tasks[k] => (k - 1) \notin Disabled
          /\ (req.op = "version" /\ req.url_idx = Unpinned) =>
                Range(req.tasks) \cap Disabled = {}
          /\ (/\ req.url_idx # Unpinned
              /\ req.op = "tags" \/ ENABLE_DOCKER_MODEL_RUNNER_API)
                => req.url_idx \notin Disabled
    \* chat requests, pinned or routed through the index
    /\ (last # NoChat /\ last.forwarded) => last.url_idx \notin Disabled
    \* pull requests
    /\ (updates = 0 /\ post.caller = "pull" /\ post.url # "") =>
          PositionsOf(post.url) \cap Disabled = {}

=============================================================================
